---- MODULE Spec2Model ----
(***************************************************************************)
(* Model of sovl_system/sovl_config.py: the schema validator, the config   *)
(* store (flat_config / structured_config / cache), the file handler and   *)
(* the ConfigManager operations built on them.                             *)
(*                                                                         *)
(* Python values are tagged records [t, v].  Floats are integers counted   *)
(* in units of 1e-4 (0.0003 is 3, 0.01 is 100, 5.0 is 50000).  A dotted    *)
(* key is the sequence of its segments, so key.split('.') is the key.      *)
(* The nested dictionaries of flat_config are objects of a heap, because   *)
(* the code shares them between flat_config, the shallow backup copy of    *)
(* update_batch and the dictionary handed out by get_state.                *)
(***************************************************************************)
EXTENDS Integers, Sequences, FiniteSets, TLC

VARIABLES
    schemas,      \* _SchemaValidator.schemas: key -> ConfigSchema
    heap,         \* dict objects reachable from flat_config: id -> dict
    flat,         \* _ConfigStore.flat_config: id of the top-level dict
    structured,   \* _ConfigStore.structured_config
    cache,        \* _ConfigStore.cache: key -> value
    frozen,       \* ConfigManager._frozen
    hash,         \* ConfigManager._last_config_hash
    config_file,  \* ConfigManager.config_file
    disk,         \* content of the file at _FileHandler.config_file
    lock,         \* ConfigManager.lock: "free" or the name of its holder
    subscribers,  \* ConfigManager._subscribers, in the order a loop meets them
    snap,         \* the dictionary a caller keeps from get_state()
    constructed,  \* FALSE until ConfigManager.__init__ has run
    lastOp,       \* the last completed call: operation, arguments, outcome
    nOps,         \* number of calls made so far that may change the manager
    nSnaps,       \* number of get_state calls made so far
    pc,           \* position of the thread running update_batch step by step
    batch,        \* locals of that update_batch call
    seen,         \* what the observer thread read during that call
    tmp,          \* content of the file at save_path + ".tmp"
    fh,           \* the _FileHandler call that is running: its locals
    curiosity,    \* Curiosity: the settings read at construction
    embedding_cache,  \* Curiosity.embedding_cache, entries in insertion order
    prune_event,  \* Curiosity._prune_event is set
    prune_shutdown,   \* Curiosity._prune_shutdown
    evictor,      \* the thread running _background_prune_loop: position, locals
    caller,       \* the thread that fills the cache: position, locals
    sd,           \* the thread that calls shutdown_prune_thread
    backup_file,  \* the lines of the file at embedding_cache_backup_path
    pressure,     \* CuriosityPressure: its fields
    now,          \* what time.time() returns
    cm,           \* CuriosityManager: settings, question buffer, last call
    threads,      \* the threads inside a call of the CuriosityManager: position, locals
    temper        \* TemperamentSystem: settings, score, histories, last call

vars == <<schemas, heap, flat, structured, cache, frozen, hash, subscribers, config_file,
          disk, lock, snap, constructed, lastOp, nOps, nSnaps, pc, batch, seen,
          tmp, fh, curiosity, embedding_cache, prune_event, prune_shutdown, evictor, caller,
          sd, backup_file, pressure, now, cm, threads, temper>>

\* the variables of the ConfigManager, the file on disk apart
managerVars == <<schemas, heap, flat, structured, cache, frozen, hash, subscribers,
                 config_file, lock, snap, constructed, lastOp, nOps, nSnaps, pc, batch, seen>>

\* the variables of the components other than the ConfigManager
fileVars == <<tmp, fh>>
cacheVars == <<curiosity, embedding_cache, prune_event, prune_shutdown, evictor, caller, sd,
               backup_file>>
pressureVars == <<pressure, now>>
questionVars == <<cm, threads>>
temperamentVars == <<temper>>
otherVars == <<fileVars, cacheVars, pressureVars, questionVars, temperamentVars>>

-----------------------------------------------------------------------------
(* Bounds *)

MaxOps == 2          \* calls per behaviour that may change the manager
MaxSnaps == 1        \* get_state calls per behaviour
MaxSeen == 2         \* reads the observer makes while update_batch runs
MaxCalls == 1        \* update_batch calls per behaviour of SpecConc
MaxFileKeys == 2     \* keys present in a config file given to the constructor
MaxSchemas == 11     \* keys of the schema: the default ones and one registered

-----------------------------------------------------------------------------
(* Values *)

Null == [t |-> "null", v |-> 0]
Bottom == [t |-> "bottom", v |-> 0]
IntV(n) == [t |-> "int", v |-> n]
FloatV(n) == [t |-> "float", v |-> n]
StrV(s) == [t |-> "str", v |-> s]
BoolV(b) == [t |-> "bool", v |-> IF b THEN 1 ELSE 0]
Ref(id) == [t |-> "ref", v |-> id]
DictV(f) == [t |-> "dict", v |-> f]
EmptyDict == <<>>

\* isinstance(value, schema.type); bool is a subclass of int in Python
isinstance(value, type) ==
    CASE type = "int" -> value.t \in {"int", "bool"}
      [] type = "float" -> value.t = "float"
      [] type = "str" -> value.t = "str"
      [] type = "bool" -> value.t = "bool"
      [] type = "list" -> value.t = "list"
      [] OTHER -> FALSE

\* a local variable of the source: body applied to the value computed once
With(v, body(_)) == body(v)

\* value == {} for a value that may be a reference to a dict of the heap
IsEmptyDict(hp, value) == value.t = "ref" /\ DOMAIN hp[value.v] = {}

-----------------------------------------------------------------------------
(* ConfigSchema and DEFAULT_SCHEMA *)

NoRange == <<>>

ConfigSchema(type, default, validator, range, required, nullable) ==
    [type |-> type, default |-> default, validator |-> validator,
     range |-> range, required |-> required, nullable |-> nullable]

K_base_model_name == <<"core_config", "base_model_name">>
K_quantization == <<"core_config", "quantization">>
K_learning_rate == <<"training_config", "learning_rate">>
K_batch_size == <<"training_config", "batch_size">>
K_max_samples == <<"training_config", "dry_run_params", "max_samples">>
K_weight_ignorance == <<"curiosity_config", "weight_ignorance">>
K_weight_novelty == <<"curiosity_config", "weight_novelty">>
K_scaffold_weight_cap == <<"controls_config", "scaffold_weight_cap">>
K_base_temperature == <<"controls_config", "base_temperature">>
K_dynamic_cross_attn_mode == <<"controls_config", "dynamic_cross_attn_mode">>

\* the fields of DEFAULT_SCHEMA the model keeps, in the order of the source
DEFAULT_SCHEMA ==
    << K_base_model_name, K_quantization, K_learning_rate, K_batch_size,
       K_max_samples, K_weight_ignorance, K_weight_novelty,
       K_scaffold_weight_cap, K_base_temperature,
       K_dynamic_cross_attn_mode >>

DefaultSchemas ==
    (K_base_model_name :> ConfigSchema("str", StrV("gpt2"), "none", NoRange, TRUE, FALSE))
 @@ (K_quantization :> ConfigSchema("str", StrV("fp16"), "quantization", NoRange, FALSE, FALSE))
 @@ (K_learning_rate :> ConfigSchema("float", FloatV(3), "none", <<0, 100>>, FALSE, FALSE))
 @@ (K_batch_size :> ConfigSchema("int", IntV(1), "none", <<1, 64>>, FALSE, FALSE))
 @@ (K_max_samples :> ConfigSchema("int", IntV(2), "none", <<1, 100>>, FALSE, FALSE))
 @@ (K_weight_ignorance :> ConfigSchema("float", FloatV(7000), "none", <<0, 10000>>, FALSE, FALSE))
 @@ (K_weight_novelty :> ConfigSchema("float", FloatV(3000), "none", <<0, 10000>>, FALSE, FALSE))
 @@ (K_scaffold_weight_cap :> ConfigSchema("float", FloatV(9000), "none", <<0, 10000>>, FALSE, FALSE))
 @@ (K_base_temperature :> ConfigSchema("float", FloatV(7000), "none", <<1000, 20000>>, FALSE, FALSE))
 @@ (K_dynamic_cross_attn_mode :> ConfigSchema("str", Null, "cross_attn_mode", NoRange, FALSE, TRUE))

\* the validator lambdas of the schema entries
ValidatorHolds(validator, value) ==
    CASE validator = "quantization" -> value \in {StrV("fp16"), StrV("int8"), StrV("fp32")}
      [] validator = "cross_attn_mode" -> value \in {Null, StrV("adaptive"), StrV("fixed")}
      [] OTHER -> TRUE

\* _SchemaValidator.validate: (is_valid, corrected_value)
validate(sch, key, value) ==
    IF key \notin DOMAIN sch THEN [ok |-> FALSE, corrected |-> Null]
    ELSE LET schema == sch[key] IN
         IF value = Null THEN
              IF schema.required THEN [ok |-> FALSE, corrected |-> schema.default]
              ELSE IF schema.nullable THEN [ok |-> TRUE, corrected |-> value]
              ELSE [ok |-> FALSE, corrected |-> schema.default]
         ELSE IF ~isinstance(value, schema.type)
              THEN [ok |-> FALSE, corrected |-> schema.default]
         ELSE IF schema.validator # "none" /\ ~ValidatorHolds(schema.validator, value)
              THEN [ok |-> FALSE, corrected |-> schema.default]
         ELSE IF schema.range # NoRange
                 /\ ~(schema.range[1] <= value.v /\ value.v <= schema.range[2])
              THEN [ok |-> FALSE, corrected |-> schema.default]
         ELSE [ok |-> TRUE, corrected |-> value]

-----------------------------------------------------------------------------
(* _ConfigStore.  A store is [heap, flat, structured, cache].              *)

\* _ConfigStore.__init__: structured_config
InitStructured ==
    [s \in {"core_config", "lora_config", "training_config", "curiosity_config",
            "cross_attn_config", "controls_config", "logging_config"} |->
        IF s = "training_config"
        THEN DictV("dry_run_params" :> DictV(EmptyDict))
        ELSE DictV(EmptyDict)]

\* d[k] = v on a dict
DictSet(d, k, v) == (k :> v) @@ d

\* d.setdefault(name, {}) on the dict object id: the heap after it and the
\* value returned
SetDefault(hp, id, name) ==
    IF name \in DOMAIN hp[id] THEN [heap |-> hp, val |-> hp[id][name]]
    ELSE [heap |-> Append([hp EXCEPT ![id] = DictSet(@, name, Ref(Len(hp) + 1))], EmptyDict),
          val |-> Ref(Len(hp) + 1)]

\* the branch of set_value for section.field, the cache entry being set
SetField(st1, section, field, value) ==
    With(SetDefault(st1.heap, st1.flat, section), LAMBDA d :
      IF d.val.t # "ref" THEN [st |-> st1, exc |-> TRUE]
      ELSE IF section \notin DOMAIN st1.structured
      THEN [st |-> [st1 EXCEPT !.heap = [d.heap EXCEPT ![d.val.v] = DictSet(@, field, value)]],
            exc |-> TRUE]
      ELSE [st |-> [st1 EXCEPT !.heap = [d.heap EXCEPT ![d.val.v] = DictSet(@, field, value)],
                               !.structured[section] = DictV(DictSet(@.v, field, value))],
            exc |-> FALSE])

\* the branch of set_value for training_config.dry_run_params.field
SetSubField(st1, section, sub_section, field, value) ==
    With(SetDefault(st1.heap, st1.flat, section), LAMBDA d :
      IF d.val.t # "ref" THEN [st |-> st1, exc |-> TRUE]
      ELSE With(SetDefault(d.heap, d.val.v, sub_section), LAMBDA e :
        IF e.val.t # "ref" THEN [st |-> [st1 EXCEPT !.heap = d.heap], exc |-> TRUE]
        ELSE [st |-> [st1 EXCEPT
                        !.heap = [e.heap EXCEPT ![e.val.v] = DictSet(@, field, value)],
                        !.structured[section] =
                            DictV(DictSet(@.v, sub_section,
                                          DictV(DictSet(@.v[sub_section].v, field, value))))],
              exc |-> FALSE]))

\* _ConfigStore.set_value; exc is TRUE when the statement that fails raised
set_value(st, key, value) ==
    IF Len(key) = 2
    THEN SetField([st EXCEPT !.cache = DictSet(@, key, value)], key[1], key[2], value)
    ELSE IF Len(key) = 3 /\ key[1] = "training_config" /\ key[2] = "dry_run_params"
    THEN SetSubField([st EXCEPT !.cache = DictSet(@, key, value)], key[1], key[2], key[3], value)
    ELSE [st |-> [st EXCEPT !.cache = DictSet(@, key, value)], exc |-> FALSE]

\* the descent of get_value through flat_config
RECURSIVE Descend(_, _, _, _)
Descend(hp, value, keys, default) ==
    IF keys = <<>> THEN value
    ELSE IF value.t # "ref" THEN default
    ELSE LET d == hp[value.v]
             next == IF Head(keys) \in DOMAIN d THEN d[Head(keys)] ELSE default
         IN Descend(hp, next, Tail(keys), default)

\* _ConfigStore.get_value
get_value(st, key, default) ==
    IF key \in DOMAIN st.cache THEN st.cache[key]
    ELSE With(Descend(st.heap, Ref(st.flat), key, default), LAMBDA value :
           IF ~IsEmptyDict(st.heap, value) /\ value # Null THEN value ELSE default)

\* _ConfigStore.get_section
get_section(st, section) ==
    IF section \in DOMAIN st.structured THEN st.structured[section] ELSE DictV(EmptyDict)

\* one iteration of the loop of rebuild_structured
RebuildOne(st, field, default) ==
    IF Len(field) = 2 THEN
        IF field[1] \notin DOMAIN st.structured THEN [st |-> st, exc |-> TRUE]
        ELSE [st |-> [st EXCEPT !.structured[field[1]] =
                          DictV(DictSet(@.v, field[2], get_value(st, field, default)))],
              exc |-> FALSE]
    ELSE IF Len(field) = 3 /\ field[1] = "training_config" /\ field[2] = "dry_run_params" THEN
        LET sub == st.structured[field[1]].v["dry_run_params"]
        IN [st |-> [st EXCEPT !.structured[field[1]] =
                        DictV(DictSet(@.v, "dry_run_params",
                              DictV(DictSet(sub.v, field[3], get_value(st, field, default)))))],
            exc |-> FALSE]
    ELSE [st |-> st, exc |-> FALSE]

\* _ConfigStore.rebuild_structured(schemas); list is a sequence of
\* <<field, default>> pairs
RECURSIVE rebuild_structured(_, _)
rebuild_structured(st, list) ==
    IF list = <<>> THEN [st |-> st, exc |-> FALSE]
    ELSE With(RebuildOne(st, Head(list)[1], Head(list)[2]), LAMBDA r :
           IF r.exc THEN r ELSE rebuild_structured(r.st, Tail(list)))

\* _ConfigStore.update_cache(schemas): the comprehension reads the old cache
update_cache(st, list) ==
    [st EXCEPT !.cache =
        [k \in {list[i][1] : i \in DOMAIN list} |->
            LET i == CHOOSE j \in DOMAIN list :
                        list[j][1] = k /\ \A j2 \in DOMAIN list : list[j2][1] = k => j2 <= j
            IN get_value(st, k, list[i][2])]]

\* the list of <<field, default>> pairs of DEFAULT_SCHEMA
DefaultList == [i \in DOMAIN DEFAULT_SCHEMA |->
                   <<DEFAULT_SCHEMA[i], DefaultSchemas[DEFAULT_SCHEMA[i]].default>>]

-----------------------------------------------------------------------------
(* The change hash *)

\* the dictionary keys of the model in the order json.dumps(sort_keys=True)
\* writes them
SortedNames ==
    << "base_model_name", "base_temperature", "batch_size", "bogus", "controls_config",
       "core_config", "curiosity_config", "dry_run_params", "dynamic_cross_attn_mode", "extra_flag",
       "learning_rate", "max_samples", "mode", "plugin_config", "quantization",
       "scaffold_weight_cap", "training_config", "weight_ignorance", "weight_novelty" >>

RankOf == [name \in {SortedNames[i] : i \in DOMAIN SortedNames} |->
              CHOOSE i \in DOMAIN SortedNames : SortedNames[i] = name]

Rank(name) == RankOf[name]

\* the value a reference stands for, nested dicts included
RECURSIVE Deep(_, _)
Deep(hp, value) ==
    IF value.t = "ref"
    THEN DictV([k \in DOMAIN hp[value.v] |-> Deep(hp, hp[value.v][k])])
    ELSE value

\* json.dumps(value, sort_keys=True): the items of a dict in key order
RECURSIVE JsonDumps(_)
RECURSIVE JsonItems(_, _)
JsonItems(f, names) ==
    IF names = {} THEN <<>>
    ELSE With(CHOOSE x \in names : \A y \in names : Rank(x) <= Rank(y), LAMBDA k :
           <<[key |-> k, val |-> JsonDumps(f[k])]>> \o JsonItems(f, names \ {k}))
JsonDumps(value) ==
    IF value.t = "dict" THEN [t |-> "object", v |-> JsonItems(value.v, DOMAIN value.v)]
    ELSE value

\* hashlib.sha256(config_str.encode()).hexdigest()[:16], taken as injective
Sha256(str) == [t |-> "sha256", v |-> str]

NoHash == [t |-> "sha256", v |-> <<>>]

\* ConfigManager._compute_config_hash
compute_config_hash(st) == Sha256(JsonDumps(Deep(st.heap, Ref(st.flat))))

\* self._last_config_hash = self._compute_config_hash()
Rehash(m) == [m EXCEPT !.hash = compute_config_hash(m)]

-----------------------------------------------------------------------------
(* Dict objects: allocation from a JSON value, and object identity *)

\* the name of names that json writes first
FirstName(names) == CHOOSE x \in names : \A y \in names : Rank(x) <= Rank(y)

\* the nested dicts json.load builds for a JSON value: fresh objects
RECURSIVE Alloc(_, _)
RECURSIVE AllocItems(_, _, _, _)
AllocItems(hp, id, f, names) ==
    IF names = {} THEN hp
    ELSE With(FirstName(names), LAMBDA k :
         With(Alloc(hp, f[k]), LAMBDA a :
           AllocItems([a.heap EXCEPT ![id] = DictSet(@, k, a.val)], id, f, names \ {k})))
Alloc(hp, value) ==
    IF value.t # "dict" THEN [heap |-> hp, val |-> value]
    ELSE [heap |-> AllocItems(Append(hp, EmptyDict), Len(hp) + 1, value.v, DOMAIN value.v),
          val |-> Ref(Len(hp) + 1)]

\* the objects reachable from value, in the order a traversal meets them
RECURSIVE Visit(_, _, _)
RECURSIVE VisitItems(_, _, _, _)
VisitItems(hp, order, id, names) ==
    IF names = {} THEN order
    ELSE With(FirstName(names), LAMBDA k :
           VisitItems(hp, Visit(hp, order, hp[id][k]), id, names \ {k}))
Visit(hp, order, value) ==
    IF value.t # "ref" \/ (\E i \in DOMAIN order : order[i] = value.v) THEN order
    ELSE VisitItems(hp, Append(order, value.v), value.v, DOMAIN hp[value.v])

\* Objects have no address in the model: after every call the objects that
\* are still referenced (from flat_config, from the caller's state
\* dictionary) are numbered in traversal order and the others are dropped.
Renumber(order, value) ==
    IF value.t = "ref" THEN Ref(CHOOSE i \in DOMAIN order : order[i] = value.v) ELSE value

CollectRoots(m, s, b) ==
    With(Visit(m.heap, Visit(m.heap, Visit(m.heap, <<>>, Ref(m.flat)), s.config), b),
         LAMBDA order :
      [m |-> [m EXCEPT !.heap = [i \in DOMAIN order |->
                                    [k \in DOMAIN m.heap[order[i]] |->
                                        Renumber(order, m.heap[order[i]][k])]],
                       !.flat = 1],
       s |-> [s EXCEPT !.config = Renumber(order, s.config)],
       b |-> Renumber(order, b)])

Collect(m, s) == CollectRoots(m, s, Null)

-----------------------------------------------------------------------------
(* _FileHandler *)

Absent == [t |-> "absent", v |-> 0]
Corrupt == [t |-> "corrupt", v |-> 0]

\* _FileHandler.load: {} when the file is missing or does not decode
load(content) == IF content \in {Absent, Corrupt} THEN DictV(EmptyDict) ELSE content

\* _FileHandler.save: the new content of the file; saveOk is FALSE when
\* every one of the max_retries attempts fails
save(content, config, saveOk) == IF saveOk THEN config ELSE content

\* an existing file whose bytes cannot be read as text (not UTF-8, a
\* directory, no permission, a gzip stream cut short)
Unreadable == [t |-> "unreadable", v |-> 0]

\* a temp file that open(temp_file, 'w') created and json.dump did not finish
Partial == [t |-> "partial", v |-> 0]

\* no call of the file handler is running
NoCall == [op |-> "none", pc |-> "idle", attempt |-> 0, max_retries |-> 0, config |-> Null,
           previous |-> Null, failed |-> 0, partial |-> FALSE, ret |-> "none", value |-> Null,
           nCalls |-> 0]

FileInit == tmp = Absent /\ fh = NoCall

-----------------------------------------------------------------------------
(* Curiosity: the embedding cache and the thread that prunes it *)

\* no thread is at work
NoThread == [pc |-> "none", pruned_items |-> <<>>, initial_cache_size |-> 0]

NoCaller == [pc |-> "idle", clock |-> 0, puts |-> 0, nPuts |-> 0, nGets |-> 0,
             pruned_items |-> <<>>, initial_cache_size |-> 0, found |-> FALSE]

NoShutdown == [pc |-> "idle", n |-> 0, at |-> "none"]

\* Curiosity(config_manager) with the defaults of the baseline configuration
\* scaled down, background pruning off
CacheInit ==
    /\ curiosity = [embedding_cache_maxlen |-> 4, embedding_cache_prune_batch |-> 2,
                    background_pruning_enabled |-> FALSE,
                    embedding_cache_backup_enabled |-> FALSE]
    /\ embedding_cache = <<>>
    /\ backup_file = <<>>
    /\ prune_event = FALSE
    /\ prune_shutdown = FALSE
    /\ evictor = NoThread
    /\ caller = NoCaller
    /\ sd = NoShutdown

-----------------------------------------------------------------------------
(* CuriosityPressure *)

PressureInit ==
    /\ pressure = [base_pressure |-> 0, max_pressure |-> 0, min_pressure |-> 0, decay_rate |-> 0,
                   cooldown |-> 0, current_pressure |-> 0, last_update |-> 0,
                   last_eruption_time |-> 0, ret |-> "none", erupted |-> <<>>, nCalls |-> 0,
                   threshold |-> 0, drop |-> 0]
    /\ now = 0

-----------------------------------------------------------------------------
(* CuriosityManager and TemperamentSystem before any of their calls *)

NoScore == 0 - 1

\* CuriosityManager.__init__ with no setting read yet
NoManager ==
    [curiosity_threshold |-> 0, internal_threshold_factor |-> 0, max_internal_questions |-> 0,
     internal_decay_seconds |-> 0, weight_ignorance |-> 0, weight_novelty |-> 0,
     pressure_threshold |-> 0, pressure_drop |-> 0,
     internal_questions |-> <<>>, curiosity_score |-> 0, generated |-> 0, output |-> <<>>,
     op |-> "none", ret |-> "none", value |-> NoScore, score |-> NoScore,
     novelty |-> NoScore, ignorance |-> NoScore, failure |-> FALSE, erupted |-> FALSE,
     fallback |-> FALSE, nCalls |-> 0, nAdds |-> 0]

\* no thread is inside a call
NoThreads == <<>>

QuestionInit == cm = NoManager /\ threads = NoThreads

\* TemperamentSystem.__init__ with no setting read yet
\* attrs holds the attributes of the TemperamentConfig object that are not
\* fields of the dataclass, updates the dictionary the last adjustment
\* collected
NoAttributes == [name \in {} |-> 0]

NoTemperament ==
    [eager_threshold |-> 0, sluggish_threshold |-> 0, mood_influence |-> 0,
     restless_drop |-> 0, melancholy_noise |-> 0,
     temp_smoothing_factor |-> 0, decay_rate |-> 0, curiosity_boost |-> 0,
     confidence_feedback_strength |-> 0, early_lifecycle |-> 0, mid_lifecycle |-> 0,
     history_maxlen |-> 0, confidence_history_maxlen |-> 0, attrs |-> NoAttributes,
     score |-> 0, history |-> <<>>, confidence_history |-> <<>>,
     sleep_confidence_sum |-> 0, sleep_confidence_count |-> 0, _mood_cache |-> "None",
     ret |-> "none", target |-> 0, raw |-> 0, updates |-> NoAttributes,
     nCalls |-> 0, nAdjusts |-> 0]

TemperamentInit == temper = NoTemperament

-----------------------------------------------------------------------------
(* ConfigManager.  A manager m is the record of its fields, the store's    *)
(* fields included: [schemas, heap, flat, structured, cache, frozen, hash, *)
(* subscribers, config_file, disk].                                        *)

\* ConfigManager._validate_and_set_defaults, from position i of DEFAULT_SCHEMA
RECURSIVE ValidateFrom(_, _)
ValidateFrom(m, i) ==
    IF i > Len(DEFAULT_SCHEMA) THEN [st |-> m, exc |-> FALSE]
    ELSE With(validate(m.schemas, DEFAULT_SCHEMA[i],
                       get_value(m, DEFAULT_SCHEMA[i], DefaultSchemas[DEFAULT_SCHEMA[i]].default)),
              LAMBDA v :
           With(IF v.ok THEN [st |-> m, exc |-> FALSE]
                ELSE set_value(m, DEFAULT_SCHEMA[i], v.corrected),
                LAMBDA r : IF r.exc THEN r ELSE ValidateFrom(r.st, i + 1)))

\* _validate_and_set_defaults that leaves invalid values in place
validate_and_set_nothing(m) == [st |-> m, exc |-> FALSE]

validate_and_set_defaults(m) == ValidateFrom(m, 1)

\* ConfigManager.__init__: the fields of a new manager whose flat_config is
\* the dict a that load returned
NewManager(a, content, path) ==
    [schemas |-> DefaultSchemas, heap |-> a.heap, flat |-> a.val.v,
     structured |-> InitStructured, cache |-> EmptyDict, frozen |-> FALSE,
     hash |-> NoHash, subscribers |-> <<>>, config_file |-> path, disk |-> content]

\* _initialize_config once the file is loaded and the defaults are set
Refresh(m, list) == Rehash(update_cache(rebuild_structured(m, list).st, list))

\* ConfigManager.__init__ and _initialize_config on a file with that content
Construct(content, path) ==
    Refresh(validate_and_set_defaults(NewManager(Alloc(<<>>, load(content)), content, path)).st,
            DefaultList)

\* ConfigManager.get
get(m, key, default) ==
    With(get_value(m, key, default), LAMBDA value :
      IF IsEmptyDict(m.heap, value) \/ value = Null THEN default ELSE value)

\* ConfigManager.update once the frozen check has passed
UpdateUnfrozen(m, key, value) ==
    IF ~validate(m.schemas, key, value).ok THEN [m |-> m, ret |-> "false"]
    ELSE With(set_value(m, key, value), LAMBDA r :
           IF r.exc THEN [m |-> r.st, ret |-> "false"]
           ELSE [m |-> Rehash(r.st), ret |-> "true"])

\* update without its frozen check
update_ignoring_frozen(m, key, value) == UpdateUnfrozen(m, key, value)

\* ConfigManager.update
update(m, key, value) ==
    IF m.frozen THEN [m |-> m, ret |-> "false"]
    ELSE UpdateUnfrozen(m, key, value)

\* the truth value of the tuple validate returns, as update_batch tests it
\* ("if not self.validator.validate(key, value)"): a 2-tuple is never falsy
TupleTruthy(v) == TRUE

\* one iteration of the validation loop of update_batch raises: the tuple is
\* falsy, key.split(".", 1) does not unpack into two names, or the section is
\* itself a registered field, whose ConfigSchema does not support "in"
EntryRaises(m, key, value) ==
    \/ ~TupleTruthy(validate(m.schemas, key, value))
    \/ Len(key) = 1
    \/ <<key[1]>> \in DOMAIN m.schemas

\* the validation loop of update_batch raises
ValidationRaises(m, updates) ==
    \E i \in DOMAIN updates : EntryRaises(m, updates[i][1], updates[i][2])

\* the apply loop of update_batch, from position i of updates
RECURSIVE ApplyFrom(_, _, _)
ApplyFrom(m, updates, i) ==
    IF i > Len(updates) THEN [st |-> m, exc |-> FALSE]
    ELSE With(set_value(m, updates[i][1], updates[i][2]), LAMBDA r :
           IF r.exc THEN r ELSE ApplyFrom(r.st, updates, i + 1))

\* backup = self.store.flat_config.copy(): a new top-level dict holding the
\* same section objects
CopyFlat(m) == [m EXCEPT !.heap = Append(@, m.heap[m.flat])]

\* the except branch of update_batch: what the manager is after it
Rollback(m, backup, rollback_on_failure) ==
    IF rollback_on_failure THEN Refresh([m EXCEPT !.flat = backup], DefaultList) ELSE m

\* "if not self.file_handler.save(self.store.flat_config)"
SaveFailed(saveOk) == ~saveOk

\* the callbacks callers subscribe: one that returns, one that raises an
\* Exception, one that reads the configuration with ConfigManager.get
Callbacks == {"plain", "raising", "reading"}

\* ConfigManager.subscribe: _subscribers is a set, and pos is where a loop
\* over the set meets the new callback
subscribe(m, callback, pos) ==
    IF \E i \in DOMAIN m.subscribers : m.subscribers[i] = callback THEN m
    ELSE [m EXCEPT !.subscribers = SubSeq(@, 1, pos - 1) \o <<callback>> \o SubSeq(@, pos, Len(@))]

\* ConfigManager.unsubscribe
unsubscribe(m, callback) ==
    [m EXCEPT !.subscribers = SelectSeq(@, LAMBDA c : c # callback)]

\* the loop of _notify_subscribers from position i, run under self.lock: an
\* Exception of a callback is caught and logged; a callback that calls get
\* waits for self.lock, which its own thread holds (threading.Lock is not
\* reentrant), so the loop never goes on
RECURSIVE NotifyFrom(_, _)
NotifyFrom(subs, i) ==
    IF i > Len(subs) THEN [invoked |-> <<>>, blocked |-> FALSE]
    ELSE IF subs[i] = "reading" THEN [invoked |-> <<subs[i]>>, blocked |-> TRUE]
    ELSE With(NotifyFrom(subs, i + 1), LAMBDA n : [n EXCEPT !.invoked = <<subs[i]>> \o @])

\* a loop that the first Exception of a callback ends
notify_until_exception(m) ==
    [invoked |-> SubSeq(m.subscribers, 1,
                        CHOOSE n \in 0..Len(m.subscribers) :
                          /\ n = Len(m.subscribers) \/ m.subscribers[n + 1] = "raising"
                          /\ \A j \in 1..n : m.subscribers[j] # "raising"),
     blocked |-> FALSE]

\* ConfigManager._notify_subscribers
notify_subscribers(m) == NotifyFrom(m.subscribers, 1)

\* the try block of update_batch after the copy: validate all, apply all,
\* save, notify
BatchBody(m, backup, updates, rollback_on_failure, saveOk) ==
    With(IF ValidationRaises(m, updates) THEN [st |-> m, exc |-> TRUE]
         ELSE ApplyFrom(m, updates, 1),
         LAMBDA r :
      IF r.exc \/ SaveFailed(saveOk)
      THEN [m |-> Rollback(r.st, backup, rollback_on_failure), ret |-> "false",
            saved |-> FALSE, notified |-> FALSE, invoked |-> <<>>]
      ELSE With(notify_subscribers(r.st), LAMBDA n :
             [m |-> [r.st EXCEPT !.disk = save(@, Deep(r.st.heap, Ref(r.st.flat)), saveOk)],
              ret |-> IF n.blocked THEN "blocked" ELSE "true", saved |-> TRUE,
              notified |-> TRUE, invoked |-> n.invoked]))

\* ConfigManager.update_batch
update_batch(m, updates, rollback_on_failure, saveOk) ==
    IF updates = <<>>
    THEN [m |-> m, ret |-> "true", saved |-> FALSE, notified |-> FALSE, invoked |-> <<>>]
    ELSE BatchBody(CopyFlat(m), Len(m.heap) + 1, updates, rollback_on_failure, saveOk)

\* ConfigManager.tune(**kwargs): the keyword names are the keys
tune(m, kwargs, saveOk) == update_batch(m, kwargs, TRUE, saveOk)

\* ConfigManager.set_global_blend; NoArg stands for None
NoArg == Null

set_global_blend(m, weight_cap, base_temp, saveOk) ==
    LET u1 == IF weight_cap # NoArg /\ 5000 <= weight_cap.v /\ weight_cap.v <= 10000
              THEN << <<K_scaffold_weight_cap, weight_cap>> >> ELSE <<>>
        u2 == IF base_temp # NoArg /\ 5000 <= base_temp.v /\ base_temp.v <= 15000
              THEN << <<K_base_temperature, base_temp>> >> ELSE <<>>
        updates == u1 \o u2
    IN IF updates # <<>> THEN update_batch(m, updates, TRUE, saveOk)
       ELSE [m |-> m, ret |-> "true", saved |-> FALSE, notified |-> FALSE, invoked |-> <<>>]

\* ConfigManager.save_config
save_config(m, saveOk) ==
    [m |-> [m EXCEPT !.disk = save(@, Deep(m.heap, Ref(m.flat)), saveOk)],
     ret |-> IF saveOk THEN "true" ELSE "false"]

\* the loop of update_section over the entries of updates, from position i
RECURSIVE SectionFrom(_, _, _, _)
SectionFrom(m, section, updates, i) ==
    IF i > Len(updates) THEN m
    ELSE LET key == updates[i][1]
             m1 == IF key \in DOMAIN m.structured[section].v
                   THEN [m EXCEPT !.structured[section] =
                                    DictV(DictSet(@.v, key, updates[i][2]))]
                   ELSE m
         IN SectionFrom(m1, section, updates, i + 1)

\* ConfigManager.update_section: with the section present it reaches
\* self.save_config() holding self.lock, which save_config acquires again;
\* threading.Lock is not reentrant, so the call never returns ("blocked")
update_section(m, section, updates) ==
    IF section \notin DOMAIN m.structured THEN [m |-> m, ret |-> "false"]
    ELSE [m |-> SectionFrom(m, section, updates, 1), ret |-> "blocked"]

\* _SchemaValidator.register
register(sch, new) == [k \in DOMAIN new \cup DOMAIN sch |-> IF k \in DOMAIN new THEN new[k] ELSE sch[k]]

\* ConfigManager.register_schema once the frozen check has passed; list is the
\* sequence of <<field, schema>> pairs registered
RegisterUnfrozen(m, list) ==
    With(DefaultList \o [i \in DOMAIN list |-> <<list[i][1], list[i][2].default>>], LAMBDA all :
    With(validate_and_set_defaults(
           [m EXCEPT !.schemas =
              register(@, [k \in {list[i][1] : i \in DOMAIN list} |->
                             list[CHOOSE i \in DOMAIN list : list[i][1] = k][2]])]),
         LAMBDA r2 :
      IF r2.exc THEN r2.st
      ELSE With(rebuild_structured(r2.st, all), LAMBDA r3 :
             IF r3.exc THEN r3.st ELSE Rehash(update_cache(r3.st, all)))))

\* ConfigManager.validate_keys: the list comprehension calls self.get under
\* "with self.lock", and get enters "with self.lock" again; threading.Lock is
\* not reentrant, so with a key to look up the call never returns
validate_keys(m, required_keys) ==
    IF required_keys # <<>> THEN "blocked"
    ELSE IF \E i \in DOMAIN required_keys : get(m, required_keys[i], Null) = Null THEN "raised"
    ELSE "none"

\* ConfigManager.register_schema
register_schema(m, list) ==
    IF m.frozen THEN [m |-> m, ret |-> "none"]
    ELSE [m |-> RegisterUnfrozen(m, list), ret |-> "none"]

\* ConfigManager.freeze / unfreeze
freeze(m) == [m EXCEPT !.frozen = TRUE]

unfreeze(m) == [m EXCEPT !.frozen = FALSE]

\* ConfigManager.get_state: the dictionary returned holds flat_config itself
\* recorded: what the dictionary held when get_state returned it
NoState ==
    [config_file |-> "", config |-> Null, frozen |-> FALSE, config_hash |-> NoHash,
     recorded |-> Null]

get_state(m) ==
    [config_file |-> m.config_file, config |-> Ref(m.flat), frozen |-> m.frozen,
     config_hash |-> m.hash, recorded |-> Deep(m.heap, Ref(m.flat))]

\* copy.deepcopy of a state dictionary, as a caller that keeps or persists a
\* snapshot makes it
DeepCopyState(m, state) == [state EXCEPT !.config = Deep(m.heap, state.config)]

\* ConfigManager.load_state; the dict of state becomes flat_config
load_state(m, state) ==
    With(Alloc(m.heap, state.config), LAMBDA a :
    With(validate_and_set_defaults(
           [m EXCEPT !.config_file = state.config_file, !.heap = a.heap,
                     !.flat = a.val.v, !.frozen = state.frozen]),
         LAMBDA r2 :
      [m |-> IF r2.exc THEN r2.st ELSE Refresh(r2.st, DefaultList),
       ret |-> IF r2.exc THEN "raised" ELSE "none",
       state |-> [state EXCEPT !.config = a.val]]))

-----------------------------------------------------------------------------
(* Inputs *)

K_bogus == <<"core_config", "bogus">>
K_plugin_mode == <<"plugin_config", "mode">>
K_extra_flag == <<"core_config", "extra_flag">>

ConfigPath == "sovl_config.json"

\* the (key, value) pairs callers pass to update
UpdateInputs ==
    { <<K_base_model_name, Null>>,
      <<K_quantization, StrV("fp32")>>, <<K_quantization, StrV("invalid")>>,
      <<K_batch_size, IntV(8)>>, <<K_batch_size, IntV(100)>>,
      <<K_learning_rate, IntV(0)>>,
      <<K_max_samples, IntV(5)>>,
      <<K_bogus, IntV(8)>>,
      <<K_plugin_mode, StrV("b")>> }

\* the entries callers put into the dict given to update_batch
BatchEntries ==
    << <<K_batch_size, IntV(8)>>, <<K_quantization, StrV("invalid")>>,
       <<K_plugin_mode, StrV("a")>> >>

MaxBatch == 2        \* entries of the dict given to update_batch

\* the dicts of at most MaxBatch entries, inserted in the order of BatchEntries
BatchInputs ==
    { [i \in DOMAIN u |-> BatchEntries[u[i]]] :
        u \in { w \in UNION { [1..n -> DOMAIN BatchEntries] : n \in 0..MaxBatch } :
                  \A i, j \in DOMAIN w : i < j => w[i] < w[j] } }

\* rollback_on_failure and whether the save of the call can succeed
BatchFlags == { <<TRUE, TRUE>>, <<TRUE, FALSE>>, <<FALSE, TRUE>> }

TuneInputs == { << <<<<"batch_size">>, IntV(8)>> >> }

BlendInputs == { <<FloatV(8000), NoArg>>, <<FloatV(2000), FloatV(12000)>> }

SectionInputs ==
    { <<"training_config", << <<"batch_size", IntV(16)>> >> >>,
      <<"plugin_config", << <<"mode", StrV("a")>> >> >> }

RegisterInputs ==
    { << <<K_extra_flag, ConfigSchema("bool", BoolV(TRUE), "none", NoRange, FALSE, FALSE)>> >>,
      << <<K_plugin_mode, ConfigSchema("str", StrV("a"), "none", NoRange, FALSE, FALSE)>> >> }

\* the config file the constructor of Spec and SpecConc starts from: none
InitFiles == { Absent }

-----------------------------------------------------------------------------
(* State *)

Mgr == [schemas |-> schemas, heap |-> heap, flat |-> flat, structured |-> structured,
        cache |-> cache, frozen |-> frozen, hash |-> hash, config_file |-> config_file,
        disk |-> disk, subscribers |-> subscribers]

\* the manager and the caller's state dictionary after a call
SetMgr(m, s) ==
    \E c \in {Collect(m, s)} :
    /\ schemas' = c.m.schemas
    /\ heap' = c.m.heap
    /\ flat' = c.m.flat
    /\ structured' = c.m.structured
    /\ cache' = c.m.cache
    /\ frozen' = c.m.frozen
    /\ hash' = c.m.hash
    /\ config_file' = c.m.config_file
    /\ disk' = c.m.disk
    /\ subscribers' = c.m.subscribers
    /\ snap' = c.s

NoOp == [op |-> "init", ret |-> "none", updates |-> <<>>, rollback |-> FALSE,
         saveOk |-> FALSE, saved |-> FALSE, notified |-> FALSE, invoked |-> <<>>,
         repeat |-> FALSE,
         val |-> Null]

Done(op, ret, updates) ==
    /\ lastOp' = [NoOp EXCEPT !.op = op, !.ret = ret, !.updates = updates]
    /\ nOps' = nOps + 1

NoBatch == [updates |-> <<>>, rollback |-> FALSE, backup |-> Null, i |-> 0, old |-> <<>>]

Idle == /\ pc = "idle" /\ batch = NoBatch /\ seen = <<>>

\* the initial state of the components other than the ConfigManager
OtherInit == FileInit /\ CacheInit /\ PressureInit /\ QuestionInit /\ TemperamentInit

\* ConfigManager(config_file, logger) on one of the files of InitFiles
ManagerInit ==
    /\ \E m \in {Construct(f, ConfigPath) : f \in InitFiles} :
         /\ schemas = m.schemas /\ heap = m.heap /\ flat = m.flat
         /\ structured = m.structured /\ cache = m.cache /\ frozen = m.frozen
         /\ hash = m.hash /\ config_file = m.config_file /\ disk = m.disk
         /\ subscribers = m.subscribers
    /\ lock = "free"
    /\ snap = NoState
    /\ constructed = TRUE
    /\ lastOp = NoOp
    /\ nOps = 0
    /\ nSnaps = 0
    /\ Idle

Init == ManagerInit /\ OtherInit

\* a caller may start a call: the manager exists, no earlier call of this
\* caller is still blocked, and the bound on calls is not reached
Ready == constructed /\ lock = "free" /\ pc = "idle" /\ nOps < MaxOps

-----------------------------------------------------------------------------
(* The calls, each one atomic *)

Update(key, value) ==
    /\ Ready
    /\ \E r \in {update(Mgr, key, value)} :
       /\ SetMgr(r.m, snap)
       /\ Done("update", r.ret, << <<key, value>> >>)
    /\ UNCHANGED <<lock, constructed, nSnaps, pc, batch, seen, otherVars>>

UpdateBatch(updates, rollback_on_failure, saveOk) ==
    /\ Ready
    /\ \E r \in {update_batch(Mgr, updates, rollback_on_failure, saveOk)} :
       /\ SetMgr(r.m, snap)
       /\ lastOp' = [NoOp EXCEPT !.op = "update_batch", !.ret = r.ret, !.updates = updates,
                                 !.rollback = rollback_on_failure, !.saveOk = saveOk,
                                 !.repeat = (lastOp.op = "update_batch"
                                             /\ lastOp.updates = updates),
                                 !.saved = r.saved,
                                 !.notified = r.notified, !.invoked = r.invoked]
       /\ lock' = IF r.ret = "blocked" THEN "notify_subscribers" ELSE lock
       /\ nOps' = nOps + 1
    /\ UNCHANGED <<constructed, nSnaps, pc, batch, seen, otherVars>>

Tune(kwargs, saveOk) ==
    /\ Ready
    /\ \E r \in {tune(Mgr, kwargs, saveOk)} :
       /\ SetMgr(r.m, snap)
       /\ lastOp' = [NoOp EXCEPT !.op = "tune", !.ret = r.ret, !.updates = kwargs,
                                 !.rollback = TRUE, !.saveOk = saveOk, !.saved = r.saved,
                                 !.notified = r.notified, !.invoked = r.invoked]
       /\ lock' = IF r.ret = "blocked" THEN "notify_subscribers" ELSE lock
       /\ nOps' = nOps + 1
    /\ UNCHANGED <<constructed, nSnaps, pc, batch, seen, otherVars>>

SetGlobalBlend(weight_cap, base_temp, saveOk) ==
    /\ Ready
    /\ \E r \in {set_global_blend(Mgr, weight_cap, base_temp, saveOk)} :
       /\ SetMgr(r.m, snap)
       /\ lastOp' = [NoOp EXCEPT !.op = "set_global_blend", !.ret = r.ret,
                                 !.updates = << <<K_scaffold_weight_cap, weight_cap>>,
                                                <<K_base_temperature, base_temp>> >>,
                                 !.rollback = TRUE, !.saveOk = saveOk, !.saved = r.saved,
                                 !.notified = r.notified, !.invoked = r.invoked]
       /\ lock' = IF r.ret = "blocked" THEN "notify_subscribers" ELSE lock
       /\ nOps' = nOps + 1
    /\ UNCHANGED <<constructed, nSnaps, pc, batch, seen, otherVars>>

SaveConfig(saveOk) ==
    /\ Ready
    /\ \E r \in {save_config(Mgr, saveOk)} :
       /\ SetMgr(r.m, snap)
       /\ lastOp' = [NoOp EXCEPT !.op = "save_config", !.ret = r.ret, !.saveOk = saveOk,
                                 !.saved = saveOk]
       /\ nOps' = nOps + 1
    /\ UNCHANGED <<lock, constructed, nSnaps, pc, batch, seen, otherVars>>

UpdateSection(section, updates) ==
    /\ Ready
    /\ \E r \in {update_section(Mgr, section, updates)} :
       /\ SetMgr(r.m, snap)
       /\ Done("update_section", r.ret,
               [i \in DOMAIN updates |-> << <<section, updates[i][1]>>, updates[i][2] >>])
       /\ lock' = IF r.ret = "blocked" THEN "update_section" ELSE lock
    /\ UNCHANGED <<constructed, nSnaps, pc, batch, seen, otherVars>>

\* register_schema grows the schema, which bounds the calls of it
RegisterSchema(list) ==
    /\ Ready
    /\ Cardinality(DOMAIN schemas) < MaxSchemas
    /\ \E r \in {register_schema(Mgr, list)} :
       /\ SetMgr(r.m, snap)
       /\ lastOp' = [NoOp EXCEPT !.op = "register_schema", !.ret = r.ret,
                                 !.updates = [i \in DOMAIN list |->
                                                <<list[i][1], list[i][2].default>>]]
    /\ UNCHANGED <<lock, constructed, nOps, nSnaps, pc, batch, seen, otherVars>>

Freeze ==
    /\ Ready
    /\ SetMgr(freeze(Mgr), snap)
    /\ Done("freeze", "none", <<>>)
    /\ UNCHANGED <<lock, constructed, nSnaps, pc, batch, seen, otherVars>>

Unfreeze ==
    /\ Ready
    /\ SetMgr(unfreeze(Mgr), snap)
    /\ Done("unfreeze", "none", <<>>)
    /\ UNCHANGED <<lock, constructed, nSnaps, pc, batch, seen, otherVars>>

\* s = get_state(), which the caller keeps as it is or deep-copies
GetState(deepcopy) ==
    /\ Ready
    /\ nSnaps < MaxSnaps
    /\ SetMgr(Mgr, IF deepcopy THEN DeepCopyState(Mgr, get_state(Mgr)) ELSE get_state(Mgr))
    /\ lastOp' = [NoOp EXCEPT !.op = "get_state"]
    /\ nSnaps' = nSnaps + 1
    /\ UNCHANGED <<lock, constructed, nOps, pc, batch, seen, otherVars>>

\* load_state(s) with the dictionary the caller kept
LoadState ==
    /\ Ready
    /\ snap # NoState
    /\ \E r \in {load_state(Mgr, snap)} :
       /\ SetMgr(r.m, r.state)
       /\ Done("load_state", r.ret, <<>>)
    /\ UNCHANGED <<lock, constructed, nSnaps, pc, batch, seen, otherVars>>

Get(key) ==
    /\ constructed /\ lock = "free" /\ pc = "idle"
    /\ lastOp' = [NoOp EXCEPT !.op = "get", !.ret = "value",
                              !.updates = << <<key, Bottom>> >>,
                              !.val = get(Mgr, key, Bottom)]
    /\ UNCHANGED <<nOps, nSnaps, schemas, heap, flat, structured, cache, frozen, hash, subscribers, config_file,
                   disk, lock, snap, constructed, pc, batch, seen, otherVars>>

Next ==
    \/ \E u \in UpdateInputs : Update(u[1], u[2])
    \/ \E u \in BatchInputs, f \in BatchFlags : UpdateBatch(u, f[1], f[2])
    \/ \E k \in TuneInputs : Tune(k, TRUE)
    \/ \E b \in BlendInputs : SetGlobalBlend(b[1], b[2], TRUE)
    \/ \E ok \in BOOLEAN : SaveConfig(ok)
    \/ \E u \in SectionInputs : UpdateSection(u[1], u[2])
    \/ \E l \in RegisterInputs : RegisterSchema(l)
    \/ Freeze
    \/ Unfreeze

Spec == Init /\ [][Next]_vars

\* the calls of a caller that takes the state with get_state and gives it back
\* with load_state, between writes
NextState ==
    \/ \E u \in UpdateInputs : Update(u[1], u[2])
    \/ \E u \in BatchInputs, f \in BatchFlags : UpdateBatch(u, f[1], f[2])
    \/ Freeze
    \/ Unfreeze
    \/ \E d \in BOOLEAN : GetState(d)
    \/ LoadState

SpecState == Init /\ [][NextState]_vars

-----------------------------------------------------------------------------
(* Subscribers, and the calls that take self.lock twice *)

Subscribe(callback, pos) ==
    /\ Ready
    /\ pos \in 1..(Len(subscribers) + 1)
    /\ SetMgr(subscribe(Mgr, callback, pos), snap)
    /\ lastOp' = [NoOp EXCEPT !.op = "subscribe"]
    /\ UNCHANGED <<lock, constructed, nOps, nSnaps, pc, batch, seen, otherVars>>

Unsubscribe(callback) ==
    /\ Ready
    /\ SetMgr(unsubscribe(Mgr, callback), snap)
    /\ lastOp' = [NoOp EXCEPT !.op = "unsubscribe"]
    /\ UNCHANGED <<lock, constructed, nOps, nSnaps, pc, batch, seen, otherVars>>

\* the lists of keys callers pass to validate_keys
KeyLists == { <<>>, <<K_batch_size>>, <<K_batch_size, K_bogus>> }

ValidateKeys(required_keys) ==
    /\ Ready
    /\ \E ret \in {validate_keys(Mgr, required_keys)} :
         /\ lastOp' = [NoOp EXCEPT !.op = "validate_keys", !.ret = ret,
                                   !.updates = [i \in DOMAIN required_keys |->
                                                  <<required_keys[i], Null>>]]
         /\ lock' = IF ret = "blocked" THEN "validate_keys" ELSE lock
    /\ nOps' = nOps + 1
    /\ UNCHANGED <<schemas, heap, flat, structured, cache, frozen, hash, subscribers,
                   config_file, disk, snap, constructed, nSnaps, pc, batch, seen, otherVars>>

NextNotify ==
    \/ \E c \in Callbacks, pos \in 1..(Cardinality(Callbacks) + 1) : Subscribe(c, pos)
    \/ \E c \in Callbacks : Unsubscribe(c)
    \/ \E u \in BatchInputs, f \in BatchFlags : UpdateBatch(u, f[1], f[2])
    \/ \E u \in SectionInputs : UpdateSection(u[1], u[2])
    \/ \E l \in KeyLists : ValidateKeys(l)

SpecNotify == Init /\ [][NextNotify]_vars

-----------------------------------------------------------------------------
(* Construction from a config file *)

\* the values a config file may hold for a key: valid, of the wrong type,
\* out of range, failing the predicate, null, an empty dict, an unknown key,
\* and a section that is not a dict
FileCandidates ==
    { <<K_base_model_name, StrV("gpt2-medium")>>, <<K_base_model_name, IntV(5)>>,
      <<K_quantization, StrV("int8")>>, <<K_quantization, StrV("invalid")>>,
      <<K_learning_rate, FloatV(10)>>, <<K_learning_rate, FloatV(50000)>>,
      <<K_learning_rate, IntV(0)>>,
      <<K_batch_size, IntV(8)>>, <<K_batch_size, IntV(100)>>, <<K_batch_size, BoolV(TRUE)>>,
      <<K_batch_size, Null>>, <<K_batch_size, DictV(EmptyDict)>>,
      <<K_max_samples, IntV(5)>>, <<K_max_samples, IntV(0)>>,
      <<K_dynamic_cross_attn_mode, StrV("adaptive")>>,
      <<K_dynamic_cross_attn_mode, StrV("invalid")>>,
      <<K_dynamic_cross_attn_mode, Null>>,
      <<K_bogus, IntV(8)>>,
      << <<"core_config">>, IntV(5) >> }

IsPrefix(p, q) == Len(p) <= Len(q) /\ SubSeq(q, 1, Len(p)) = p

\* the JSON value at prefix of the file holding the entries A
RECURSIVE FileAt(_, _)
FileAt(A, prefix) ==
    IF \E e \in A : e[1] = prefix THEN (CHOOSE e \in A : e[1] = prefix)[2]
    ELSE DictV([n \in {e[1][Len(prefix) + 1] : e \in {x \in A : IsPrefix(prefix, x[1])}} |->
                  FileAt(A, Append(prefix, n))])

\* the config files with at most MaxFileKeys entries, a missing file and a
\* file that is not JSON
Files ==
    { FileAt(A, <<>>) :
        A \in { B \in SUBSET FileCandidates :
                  /\ Cardinality(B) <= MaxFileKeys
                  /\ \A e1, e2 \in B : e1 # e2 => ~IsPrefix(e1[1], e2[1]) } }
    \cup {Absent, Corrupt}

InitLoad ==
    /\ disk \in Files
    /\ constructed = FALSE
    /\ schemas = <<>> /\ heap = <<>> /\ flat = 0 /\ structured = <<>> /\ cache = <<>>
    /\ frozen = FALSE /\ hash = NoHash /\ config_file = "" /\ subscribers = <<>>
    /\ lock = "free"
    /\ snap = NoState
    /\ lastOp = NoOp
    /\ nOps = 0
    /\ nSnaps = 0
    /\ Idle
    /\ OtherInit

\* ConfigManager(config_file, logger)
ConstructManager ==
    /\ ~constructed
    /\ \E m \in {Construct(disk, ConfigPath)} : SetMgr(m, snap)
    /\ constructed' = TRUE
    /\ Done("construct", "none", <<>>)
    /\ UNCHANGED <<lock, nSnaps, pc, batch, seen, otherVars>>

NextLoad ==
    \/ ConstructManager
    \/ \E k \in {DEFAULT_SCHEMA[i] : i \in DOMAIN DEFAULT_SCHEMA} : Get(k)

SpecLoad == InitLoad /\ [][NextLoad]_vars

-----------------------------------------------------------------------------
(* update_batch step by step, with a second thread that reads.             *)
(* update_batch does not take self.lock except inside _notify_subscribers, *)
(* so each of its statements is a step other threads interleave with.      *)

\* the three roots of the heap while update_batch runs
SetMgrBatch(m, b) ==
    \E c \in {CollectRoots(m, snap, b.backup)} :
    /\ schemas' = c.m.schemas
    /\ heap' = c.m.heap
    /\ flat' = c.m.flat
    /\ structured' = c.m.structured
    /\ cache' = c.m.cache
    /\ frozen' = c.m.frozen
    /\ hash' = c.m.hash
    /\ config_file' = c.m.config_file
    /\ disk' = c.m.disk
    /\ subscribers' = c.m.subscribers
    /\ snap' = c.s
    /\ batch' = [b EXCEPT !.backup = c.b]

\* what the three read paths show before the call
OldViews(m, updates) ==
    [get |-> [k \in DOMAIN m.cache \cup {updates[i][1] : i \in DOMAIN updates} |->
                get(m, k, Bottom)],
     get_section |-> m.structured,
     get_state |-> Deep(m.heap, Ref(m.flat))]

\* update_batch is entered: "if not updates: return True", then the backup copy
BatchBegin(updates, rollback_on_failure) ==
    /\ constructed /\ pc = "idle" /\ nOps < MaxCalls
    /\ IF updates = <<>>
       THEN /\ pc' = "done"
            /\ lastOp' = [NoOp EXCEPT !.op = "update_batch", !.ret = "true",
                                      !.rollback = rollback_on_failure]
            /\ batch' = [NoBatch EXCEPT !.rollback = rollback_on_failure]
            /\ UNCHANGED <<schemas, heap, flat, structured, cache, frozen, hash, subscribers,
                           config_file, disk, snap>>
       ELSE /\ pc' = "validate"
            /\ SetMgrBatch(CopyFlat(Mgr),
                           [updates |-> updates, rollback |-> rollback_on_failure,
                            backup |-> Ref(Len(heap) + 1), i |-> 1, old |-> OldViews(Mgr, updates)])
            /\ UNCHANGED lastOp
    /\ UNCHANGED <<lock, constructed, nOps, nSnaps, seen, otherVars>>

\* the validation loop
BatchValidate ==
    /\ pc = "validate"
    /\ pc' = IF ValidationRaises(Mgr, batch.updates) THEN "except" ELSE "apply"
    /\ UNCHANGED <<schemas, heap, flat, structured, cache, frozen, hash, subscribers,
                   config_file, disk,
                   lock, snap, constructed, lastOp, nOps, nSnaps, batch, seen, otherVars>>

\* one iteration of the apply loop
BatchApply ==
    /\ pc = "apply"
    /\ \E r \in {set_value(Mgr, batch.updates[batch.i][1], batch.updates[batch.i][2])} :
         /\ SetMgrBatch(r.st, [batch EXCEPT !.i = @ + 1])
         /\ pc' = IF r.exc THEN "except"
                  ELSE IF batch.i = Len(batch.updates) THEN "save" ELSE "apply"
    /\ UNCHANGED <<lock, constructed, lastOp, nOps, nSnaps, seen, otherVars>>

\* self.file_handler.save(self.store.flat_config)
BatchSave(saveOk) ==
    /\ pc = "save"
    /\ disk' = save(disk, Deep(heap, Ref(flat)), saveOk)
    /\ pc' = IF SaveFailed(saveOk) THEN "except" ELSE "notify"
    /\ lastOp' = [lastOp EXCEPT !.saveOk = saveOk]
    /\ UNCHANGED <<schemas, heap, flat, structured, cache, frozen, hash, subscribers,
                   config_file,
                   lock, snap, constructed, nOps, nSnaps, batch, seen, otherVars>>

\* self._notify_subscribers(), which takes self.lock, and "return True"
BatchNotify ==
    /\ pc = "notify"
    /\ lock = "free"
    /\ \E n \in {notify_subscribers(Mgr)} :
         /\ pc' = IF n.blocked THEN "blocked" ELSE "done"
         /\ lock' = IF n.blocked THEN "notify_subscribers" ELSE lock
         /\ lastOp' = [NoOp EXCEPT !.op = "update_batch",
                                   !.ret = IF n.blocked THEN "blocked" ELSE "true",
                                   !.updates = batch.updates, !.rollback = batch.rollback,
                                   !.saveOk = TRUE, !.saved = TRUE, !.notified = TRUE,
                                   !.invoked = n.invoked]
    /\ UNCHANGED <<schemas, heap, flat, structured, cache, frozen, hash, subscribers,
                   config_file, disk, snap, constructed, nOps, nSnaps, batch, seen, otherVars>>

\* the except branch and "return False"
BatchExcept ==
    /\ pc = "except"
    /\ SetMgrBatch(Rollback(Mgr, batch.backup.v, batch.rollback), batch)
    /\ pc' = "done"
    /\ lastOp' = [NoOp EXCEPT !.op = "update_batch", !.ret = "false",
                              !.updates = batch.updates, !.rollback = batch.rollback]
    /\ UNCHANGED <<lock, constructed, nOps, nSnaps, seen, otherVars>>

\* the call has returned; its locals are gone
BatchReturn ==
    /\ pc = "done"
    /\ pc' = "idle"
    /\ SetMgr(Mgr, snap)
    /\ batch' = NoBatch
    /\ seen' = <<>>
    /\ nOps' = nOps + 1
    /\ UNCHANGED <<lock, constructed, lastOp, nSnaps, otherVars>>

Running == pc \in {"validate", "apply", "save", "notify", "except"}

\* the observer thread calls get(key), get_section(section) or get_state()
\* while update_batch runs; each takes self.lock for the read
Observe(kind, key) ==
    /\ Running
    /\ lock = "free"
    /\ Len(seen) < MaxSeen
    /\ seen' = Append(seen,
                 [kind |-> kind, key |-> key,
                  val |-> CASE kind = "get" -> get(Mgr, key, Bottom)
                            [] kind = "get_section" -> get_section(Mgr, key[1])
                            [] OTHER -> Deep(heap, get_state(Mgr).config)])
    /\ UNCHANGED <<schemas, heap, flat, structured, cache, frozen, hash, subscribers,
                   config_file, disk,
                   lock, snap, constructed, lastOp, nOps, nSnaps, pc, batch, otherVars>>

ObserveInputs ==
    { <<"get", K_batch_size>>, <<"get", K_quantization>>,
      <<"get_section", <<"training_config">> >>, <<"get_state", <<>> >> }

\* the dicts given to update_batch while the observer reads: those of
\* BatchInputs and one whose two entries are both valid
ConcInputs ==
    BatchInputs \cup { << <<K_batch_size, IntV(8)>>, <<K_learning_rate, FloatV(10)>> >> }

NextConc ==
    \/ \E u \in ConcInputs, rb \in BOOLEAN : BatchBegin(u, rb)
    \/ BatchValidate
    \/ BatchApply
    \/ \E ok \in BOOLEAN : BatchSave(ok)
    \/ BatchNotify
    \/ BatchExcept
    \/ BatchReturn
    \/ \E o \in ObserveInputs : Observe(o[1], o[2])

SpecConc == Init /\ [][NextConc]_vars

-----------------------------------------------------------------------------
(* Properties of the atomic calls, checked under Spec *)

\* flat_config as the nested dictionary it denotes
FlatMap == Deep(heap, Ref(flat))

\* the step is a call of op that returned or blocked
Called(op) == lastOp'.op = op

\* the three views and the hash are what they were before the step
StoreUnchanged ==
    /\ FlatMap' = FlatMap
    /\ structured' = structured
    /\ cache' = cache
    /\ hash' = hash

\* every entry of updates passes the schema validator
AllValid(sch, updates) ==
    \A i \in DOMAIN updates : validate(sch, updates[i][1], updates[i][2]).ok

\* C1: update on a frozen manager returns false without raising and leaves
\* flat_config, structured_config, the cache and the hash as they were.
C1_FrozenUpdateRejected ==
    [][(Called("update") /\ frozen) => (lastOp'.ret = "false" /\ StoreUnchanged)]_vars

\* a frozen manager has refused an update that the schema accepts
C1_Witness ==
    /\ lastOp.op = "update"
    /\ frozen
    /\ lastOp.ret = "false"
    /\ AllValid(schemas, lastOp.updates)

\* the operations the specification calls writes
WriteOps ==
    {"update", "update_batch", "tune", "set_global_blend", "register_schema",
     "update_section"}

\* C2: while the manager is frozen every write operation that is given
\* something to write fails and changes neither the three views, nor the
\* hash, nor the config file.
C2_FrozenBlocksWrites ==
    [][(frozen /\ lastOp'.op \in WriteOps /\ lastOp'.updates # <<>>)
         => (/\ lastOp'.ret # "true"
             /\ StoreUnchanged
             /\ disk' = disk)]_vars

\* C3: update_batch with rollback, given a batch with an entry the schema
\* rejects, returns false, applies no entry, keeps the hash, and neither saves
\* nor notifies (here only for calls whose save could have succeeded, so
\* that the rejection is the only reason to fail).
C3_InvalidBatchRejected ==
    [][(/\ Called("update_batch")
        /\ lastOp'.rollback
        /\ lastOp'.saveOk
        /\ ~AllValid(schemas, lastOp'.updates))
         => (/\ lastOp'.ret = "false"
             /\ \A i \in DOMAIN lastOp'.updates :
                  get(Mgr', lastOp'.updates[i][1], Bottom)
                    = get(Mgr, lastOp'.updates[i][1], Bottom)
             /\ hash' = hash
             /\ ~lastOp'.saved
             /\ ~lastOp'.notified
             /\ disk' = disk)]_vars

\* C5: when update_batch with rollback returns false, also because the save
\* failed, flat_config, structured_config and the cache are what they were
\* before the call and the hash is the hash of the restored configuration.
C5_FailedBatchRestored ==
    [][(Called("update_batch") /\ lastOp'.rollback /\ lastOp'.ret = "false")
         => (/\ FlatMap' = FlatMap
             /\ structured' = structured
             /\ cache' = cache
             /\ hash' = compute_config_hash(Mgr))]_vars

\* C6: after update or update_batch returned true, the hash changed exactly
\* when flat_config changed, and it is the hash of flat_config.
C6_HashTracksFlatConfig ==
    [][(lastOp'.op \in {"update", "update_batch"} /\ lastOp'.ret = "true")
         => (/\ (hash' # hash) <=> (FlatMap' # FlatMap)
             /\ hash' = compute_config_hash(Mgr'))]_vars

\* the value flat_config holds for key, the schema default where it holds none
FlatValue(key) ==
    get_value([Mgr EXCEPT !.cache = EmptyDict], key, schemas[key].default)

\* the value structured_config holds for key
StructuredValue(key) ==
    LET sec == get_section(Mgr, key[1]).v
        field == IF Len(key) = 2 THEN key[2] ELSE key[3]
        d == IF Len(key) = 2 THEN sec
             ELSE IF key[2] \in DOMAIN sec /\ sec[key[2]].t = "dict" THEN sec[key[2]].v
             ELSE EmptyDict
    IN IF field \in DOMAIN d THEN d[field] ELSE Bottom

\* C7: between calls, flat_config, structured_config and the cache hold the
\* same value for every key of the default schema.
C7_ViewsAgree ==
    (constructed /\ lock = "free" /\ pc = "idle")
      => \A i \in DOMAIN DEFAULT_SCHEMA :
           LET k == DEFAULT_SCHEMA[i]
           IN /\ k \in DOMAIN cache
              /\ FlatValue(k) = cache[k]
              /\ StructuredValue(k) = cache[k]

\* C9: load_state(s) right after s = get_state() leaves the config file
\* path, flat_config, the frozen flag and the hash as they were.
C9_StateRoundTrip ==
    [][(lastOp.op = "get_state" /\ Called("load_state"))
         => (/\ config_file' = config_file
             /\ FlatMap' = FlatMap
             /\ frozen' = frozen
             /\ hash' = hash)]_vars

\* C10: the second of two consecutive update_batch calls with the same valid
\* updates returns true and leaves the hash unchanged (here only for second
\* calls whose save of the config file can succeed).
C10_RepeatedBatch ==
    [][(/\ Called("update_batch")
        /\ lastOp'.repeat
        /\ AllValid(schemas, lastOp'.updates)
        /\ lastOp'.saveOk)
         => (lastOp'.ret = "true" /\ hash' = hash)]_vars

-----------------------------------------------------------------------------
(* Properties of construction, checked under SpecLoad *)

\* the JSON value a nested dictionary holds at keys, Bottom where it holds none
RECURSIVE DeepAt(_, _)
DeepAt(value, keys) ==
    IF keys = <<>> THEN value
    ELSE IF value.t # "dict" \/ Head(keys) \notin DOMAIN value.v THEN Bottom
    ELSE DeepAt(value.v[Head(keys)], Tail(keys))

\* what the file gives for key when the schema accepts it, the schema
\* default otherwise
Expected(key) ==
    LET onDisk == DeepAt(load(disk), key)
    IN IF validate(DefaultSchemas, key, onDisk).ok THEN onDisk
       ELSE DefaultSchemas[key].default

-----------------------------------------------------------------------------
(* Properties of the interleaved batch, checked under SpecConc *)

\* the observation o covers the batch key k
Covers(o, k) ==
    CASE o.kind = "get" -> o.key = k
      [] o.kind = "get_section" -> Len(k) = 2 /\ k[1] = o.key[1]
      [] OTHER -> TRUE

\* the value the observation o shows for the key k it covers
Shown(o, k) ==
    CASE o.kind = "get" -> o.val
      [] o.kind = "get_section" -> DeepAt(o.val, Tail(k))
      [] OTHER -> DeepAt(o.val, k)

\* the value the same read showed for k before update_batch was entered
ShownBefore(o, k) ==
    CASE o.kind = "get" -> batch.old.get[k]
      [] o.kind = "get_section" -> DeepAt(get_section([structured |-> batch.old.get_section],
                                                      k[1]), Tail(k))
      [] OTHER -> DeepAt(batch.old.get_state, k)

\* o shows the value the batch gives to its i-th key, and it is a new one
ShowsNew(o, i) ==
    LET k == batch.updates[i][1]
    IN Covers(o, k) /\ Shown(o, k) = batch.updates[i][2] /\ Shown(o, k) # ShownBefore(o, k)

\* o shows the value the i-th key had before the batch, which the batch changes
ShowsOld(o, i) ==
    LET k == batch.updates[i][1]
    IN Covers(o, k) /\ Shown(o, k) = ShownBefore(o, k) /\ Shown(o, k) # batch.updates[i][2]

\* C4: no read made while update_batch with rollback runs shows some keys of
\* the batch with their new values and others with their old ones, and no
\* read shows a new value of a batch that ends rolled back.
C4_BatchAtomicForObservers ==
    batch.rollback =>
      \A n \in DOMAIN seen :
        /\ ~\E i, j \in DOMAIN batch.updates : ShowsNew(seen[n], i) /\ ShowsOld(seen[n], j)
        /\ (pc = "done" /\ lastOp.ret = "false")
             => ~\E i \in DOMAIN batch.updates : ShowsNew(seen[n], i)

-----------------------------------------------------------------------------
(* Subscribers and the lock *)

\* every entry of the batch reads back, after the call, as the value given
Applied(updates) ==
    \A i \in DOMAIN updates : get(Mgr', updates[i][1], Bottom) = updates[i][2]

Subscribed(callback) == \E i \in DOMAIN subscribers : subscribers[i] = callback

\* C11: update_batch calls subscribers only after every update of the batch
\* is applied and the save has succeeded, and a call in which an entry fails
\* validation or the save fails calls no subscriber.
C11_NotifyAfterDurableSuccess ==
    [][Called("update_batch")
       => /\ (lastOp'.invoked # <<>>
                => /\ lastOp'.saved /\ lastOp'.saveOk
                   /\ disk' = Deep(heap', Ref(flat'))
                   /\ Applied(lastOp'.updates))
          /\ ((~AllValid(schemas, lastOp'.updates) \/ ~lastOp'.saveOk)
                => lastOp'.invoked = <<>>)]_vars

\* C12: when a subscribed callback raises an Exception during the notification
\* of update_batch (and no callback calls back into the manager), every
\* subscriber is called, the call returns true, and the values it applied and
\* saved stay in place.
C12_CallbackExceptionCaught ==
    [][(Called("update_batch") /\ lastOp'.notified
        /\ Subscribed("raising") /\ ~Subscribed("reading"))
       => /\ lastOp'.ret = "true"
          /\ \A i \in DOMAIN subscribers :
               \E j \in DOMAIN lastOp'.invoked : lastOp'.invoked[j] = subscribers[i]
          /\ Applied(lastOp'.updates)
          /\ disk' = Deep(heap', Ref(flat'))]_vars

C12_Witness ==
    /\ lastOp.op = "update_batch" /\ lastOp.ret = "true" /\ lastOp.updates # <<>>
    /\ \E i, j \in DOMAIN lastOp.invoked :
         i < j /\ lastOp.invoked[i] = "raising" /\ lastOp.invoked[j] = "plain"

\* C15: no call blocks on the manager's own lock: validate_keys raises when a
\* key is missing and returns otherwise, update_section and a notification
\* whose callback reads the configuration return, and the lock is free after
\* every call.
C15_NoSelfDeadlock ==
    /\ lastOp.ret # "blocked"
    /\ (pc = "idle" => lock = "free")
    /\ (lastOp.op = "validate_keys"
          => lastOp.ret = IF \E i \in DOMAIN lastOp.updates :
                                get(Mgr, lastOp.updates[i][1], Null) = Null
                          THEN "raised" ELSE "none")


-----------------------------------------------------------------------------
(* _FileHandler, one step of load and save at a time.  disk is the file at  *)
(* save_path, tmp the file at save_path + ".tmp"; logger.record and         *)
(* time.sleep change neither.                                               *)

MaxRetries == 2
MaxFileCalls == 2

\* the configurations passed to save, and found in the file
FileContents ==
    { FileAt({e}, <<>>) : e \in { <<K_quantization, StrV("int8")>>, <<K_batch_size, IntV(8)>> } }

InitFile ==
    /\ disk \in {Absent, Corrupt, Unreadable} \cup FileContents
    /\ constructed = FALSE
    /\ schemas = <<>> /\ heap = <<>> /\ flat = 0 /\ structured = <<>> /\ cache = <<>>
    /\ frozen = FALSE /\ hash = NoHash /\ config_file = "" /\ subscribers = <<>>
    /\ lock = "free"
    /\ snap = NoState
    /\ lastOp = NoOp
    /\ nOps = 0
    /\ nSnaps = 0
    /\ Idle
    /\ OtherInit

FileReady == fh.pc \in {"idle", "done"} /\ fh.nCalls < MaxFileCalls

\* the call ends: return value, or "raised" when an exception leaves it
FileReturn(ret, value) == [fh EXCEPT !.pc = "done", !.ret = ret, !.value = value]

\* what an attempt to open and decode the file can do, by its content
LoadOutcomes(content) ==
    CASE content = Corrupt -> {"JSONDecodeError", "BadGzipFile", "OSError"}
      [] content = Unreadable -> {"UnicodeDecodeError", "OSError", "EOFError"}
      [] OTHER -> {"none", "OSError"}

\* except (FileNotFoundError, json.JSONDecodeError, gzip.BadGzipFile)
LoadCaught == {"FileNotFoundError", "JSONDecodeError", "BadGzipFile"}

\* load(max_retries): for attempt in range(max_retries)
LoadBegin(max_retries) ==
    /\ FileReady
    /\ fh' = [NoCall EXCEPT !.op = "load", !.pc = "attempt", !.max_retries = max_retries,
                            !.previous = disk, !.nCalls = fh.nCalls + 1]
    /\ UNCHANGED <<disk, tmp, managerVars, cacheVars, pressureVars, questionVars, temperamentVars>>

\* one pass of the loop of load
LoadAttempt(err) ==
    /\ fh.op = "load" /\ fh.pc = "attempt"
    /\ disk # Absent => err \in LoadOutcomes(disk)
    /\ fh' = IF disk = Absent THEN FileReturn("value", DictV(EmptyDict))
             ELSE IF err = "none" THEN FileReturn("value", disk)
             ELSE IF err \notin LoadCaught THEN [FileReturn("raised", Null) EXCEPT !.failed = @ + 1]
             ELSE IF fh.attempt = fh.max_retries - 1
                  THEN [FileReturn("value", DictV(EmptyDict)) EXCEPT !.failed = @ + 1]
             ELSE [fh EXCEPT !.failed = @ + 1, !.attempt = @ + 1]
    /\ UNCHANGED <<disk, tmp, managerVars, cacheVars, pressureVars, questionVars, temperamentVars>>

\* save(config, max_retries=max_retries): for attempt in range(max_retries)
SaveBegin(config, max_retries) ==
    /\ FileReady
    /\ fh' = [NoCall EXCEPT !.op = "save", !.pc = "open", !.max_retries = max_retries,
                            !.config = config, !.previous = disk, !.nCalls = fh.nCalls + 1]
    /\ UNCHANGED <<disk, tmp, managerVars, cacheVars, pressureVars, questionVars, temperamentVars>>

\* open(temp_file, 'w'): creates or truncates the temp file, or raises
SaveOpen(ok) ==
    /\ fh.op = "save" /\ fh.pc = "open"
    /\ tmp' = IF ok THEN Partial ELSE tmp
    /\ fh' = [fh EXCEPT !.pc = IF ok THEN "dump" ELSE "except"]
    /\ UNCHANGED <<disk, managerVars, cacheVars, pressureVars, questionVars, temperamentVars>>

\* json.dump(config, f, indent=2) and the close of the file, or an exception
\* part-way
SaveDump(ok) ==
    /\ fh.op = "save" /\ fh.pc = "dump"
    /\ tmp' = IF ok THEN fh.config ELSE Partial
    /\ fh' = [fh EXCEPT !.pc = IF ok THEN "replace" ELSE "except", !.partial = @ \/ ~ok]
    /\ UNCHANGED <<disk, managerVars, cacheVars, pressureVars, questionVars, temperamentVars>>

\* os.replace(temp_file, save_path), then return True
SaveReplace(ok) ==
    /\ fh.op = "save" /\ fh.pc = "replace"
    /\ disk' = IF ok THEN tmp ELSE disk
    /\ tmp' = IF ok THEN Absent ELSE tmp
    /\ fh' = IF ok THEN FileReturn("true", Null) ELSE [fh EXCEPT !.pc = "except"]
    /\ UNCHANGED <<managerVars, cacheVars, pressureVars, questionVars, temperamentVars>>

\* an except branch that leaves the temp file where it is
leave_temp(temp_file, removeOk) == temp_file

\* if os.path.exists(temp_file): os.remove(temp_file)
remove(temp_file, removeOk) == IF removeOk THEN Absent ELSE temp_file

\* except Exception: remove the temp file if it exists; return False after
\* the last attempt, else go round the loop again
SaveExcept(removeOk) ==
    /\ fh.op = "save" /\ fh.pc = "except"
    /\ tmp = Absent => removeOk
    /\ tmp' = remove(tmp, removeOk)
    /\ fh' = IF ~removeOk THEN [FileReturn("raised", Null) EXCEPT !.failed = @ + 1]
             ELSE IF fh.attempt = fh.max_retries - 1
                  THEN [FileReturn("false", Null) EXCEPT !.failed = @ + 1]
             ELSE [fh EXCEPT !.failed = @ + 1, !.attempt = @ + 1, !.pc = "open"]
    /\ UNCHANGED <<disk, managerVars, cacheVars, pressureVars, questionVars, temperamentVars>>

NextFile ==
    \/ \E n \in 1..MaxRetries : LoadBegin(n)
    \/ \E err \in {"none", "JSONDecodeError", "BadGzipFile", "UnicodeDecodeError",
                   "EOFError", "OSError"} : LoadAttempt(err)
    \/ \E c \in FileContents, n \in 1..MaxRetries : SaveBegin(c, n)
    \/ \E ok \in BOOLEAN : SaveOpen(ok)
    \/ \E ok \in BOOLEAN : SaveDump(ok)
    \/ \E ok \in BOOLEAN : SaveReplace(ok)
    \/ \E removeOk \in BOOLEAN : SaveExcept(removeOk)

SpecFile == InitFile /\ [][NextFile]_vars

-----------------------------------------------------------------------------
(* The file handler *)

\* C13: during a save the file at path holds the content it had when the
\* call began or the whole new config; the file changes only by the rename of
\* a temp file that holds the whole config; after a save that returns false
\* the file is as it was and no temp file is left
C13_SaveAtomic ==
    [][ /\ fh'.op = "save" => disk' \in {fh'.previous, fh'.config}
        /\ disk' # disk => fh.op = "save" /\ fh.pc = "replace" /\ tmp = fh.config
                           /\ disk' = fh.config /\ tmp' = Absent
        /\ fh'.op = "save" /\ fh'.pc = "done" /\ fh'.ret = "false" =>
               disk' = fh'.previous /\ tmp' = Absent ]_vars

\* a save that wrote part of the temp file, failed and returned false
C13_Witness ==
    /\ fh.op = "save" /\ fh.pc = "done" /\ fh.ret = "false"
    /\ fh.config # fh.previous
    /\ fh.partial
    /\ fh.max_retries > 1

\* C14: no call of load or save ends with an exception; load returns {} when
\* the file is missing or every attempt failed; save returns False only after
\* max_retries failed attempts and True as soon as one succeeds
C14_FileFailuresNeverRaise ==
    fh.pc = "done" =>
        /\ fh.ret # "raised"
        /\ fh.op = "load" /\ (disk = Absent \/ fh.failed = fh.max_retries) =>
               fh.value = DictV(EmptyDict)
        /\ fh.op = "save" => (fh.ret = "false" <=> fh.failed = fh.max_retries)
        /\ fh.op = "save" /\ fh.failed < fh.max_retries => fh.ret = "true"

-----------------------------------------------------------------------------
(* Curiosity: the embedding cache, step by step.  A "with self.lock" block  *)
(* is one step; no thread of the model takes the lock while it waits.  The  *)
(* source has the pruning only: put and get are the callers' writes of      *)
(* embedding_cache, put followed by _prune_cache.                            *)

MaxPuts == 6
MaxLivePuts == 3
MaxGets == 1
MaxShutdowns == 2

\* (embedding_cache_maxlen, embedding_cache_prune_batch,
\* embedding_cache_backup_enabled) as configured
CacheSettings == { <<4, 2, FALSE>> }
LiveSettings == { <<2, 1, FALSE>> }

\* the place of entry i in the order of last_access; entries of the same
\* last_access keep the order they have in the dict (sorted is stable)
AccessRank(items, i) ==
    Cardinality({j \in DOMAIN items :
                   \/ items[j].last_access < items[i].last_access
                   \/ items[j].last_access = items[i].last_access /\ j <= i})

\* sorted(self.embedding_cache.items(), key=lambda x: x[1].get('last_access', 0))
sorted_cache(items) ==
    [p \in DOMAIN items |-> items[CHOOSE i \in DOMAIN items : AccessRank(items, i) = p]]

Min(a, b) == IF a <= b THEN a ELSE b

\* the lines a backup may get into the file: none (open raises), one, or all
Written == {0, 1, 2}

\* a selection that takes the entries put first, whatever their last_access
first_items(items, prune_batch) == SubSeq(items, 1, Min(prune_batch, Len(items)))

\* pruned_items = sorted_cache[:min(prune_batch, initial_cache_size)]
pruned_items(items, prune_batch) ==
    SubSeq(sorted_cache(items), 1, Min(prune_batch, Len(items)))

\* for key, _ in pruned_items: if key in self.embedding_cache: del ...
delete_items(items, pruned) ==
    SelectSeq(items, LAMBDA e : ~\E i \in DOMAIN pruned : pruned[i].key = e.key)

\* an event that a call of set leaves as it was
event_kept(event) == event

\* threading.Event.set
event_set(event) == TRUE

\* Curiosity(config_manager), and a caller that will put `puts` entries
CuriosityInit(settings, puts) ==
    /\ ManagerInit /\ FileInit /\ PressureInit /\ QuestionInit /\ TemperamentInit
    /\ \E c \in settings, background \in BOOLEAN :
         /\ curiosity = [embedding_cache_maxlen |-> c[1], embedding_cache_prune_batch |-> c[2],
                         background_pruning_enabled |-> background,
                         embedding_cache_backup_enabled |-> c[3]]
         /\ evictor = [NoThread EXCEPT !.pc = IF background THEN "while" ELSE "none"]
    /\ embedding_cache = <<>>
    /\ backup_file = <<>>
    /\ prune_event = FALSE
    /\ prune_shutdown = FALSE
    /\ caller = [NoCaller EXCEPT !.puts = puts]
    /\ sd = NoShutdown

InitCache == CuriosityInit(CacheSettings, MaxPuts)

InitEvictor == CuriosityInit(LiveSettings, MaxLivePuts)

OverCap == Len(embedding_cache) > curiosity.embedding_cache_maxlen

\* while not self._prune_shutdown
EvictorWhile ==
    /\ evictor.pc = "while"
    /\ evictor' = [evictor EXCEPT !.pc = IF prune_shutdown THEN "exited" ELSE "wait"]
    /\ UNCHANGED <<curiosity, embedding_cache, prune_event, prune_shutdown, caller, sd>>
    /\ UNCHANGED <<managerVars, disk, fileVars, pressureVars, questionVars, temperamentVars>>
    /\ UNCHANGED backup_file

\* self._prune_event.wait()
EvictorWait ==
    /\ evictor.pc = "wait"
    /\ prune_event
    /\ evictor' = [evictor EXCEPT !.pc = "select"]
    /\ UNCHANGED <<curiosity, embedding_cache, prune_event, prune_shutdown, caller, sd>>
    /\ UNCHANGED <<managerVars, disk, fileVars, pressureVars, questionVars, temperamentVars>>
    /\ UNCHANGED backup_file

\* step 1, under the lock: leave the inner loop, or choose the entries
EvictorSelect ==
    /\ evictor.pc = "select"
    /\ evictor' = IF ~OverCap \/ prune_shutdown THEN [evictor EXCEPT !.pc = "clear"]
                  ELSE [evictor EXCEPT !.pc = "backup",
                          !.initial_cache_size = Len(embedding_cache),
                          !.pruned_items = pruned_items(embedding_cache,
                                                        curiosity.embedding_cache_prune_batch)]
    /\ UNCHANGED <<curiosity, embedding_cache, prune_event, prune_shutdown, caller, sd>>
    /\ UNCHANGED <<managerVars, disk, fileVars, pressureVars, questionVars, temperamentVars>>
    /\ UNCHANGED backup_file

\* json.dump({"key": key, "value": value}, f); f.write("\n") for each of the
\* chosen entries; written is the number of lines that reach the file before
\* open or a write raises
backup_lines(pruned, written) ==
    [i \in 1..Min(written, Len(pruned)) |->
        [key |-> pruned[i].key, value |-> [last_access |-> pruned[i].last_access]]]

\* step 2 of a pruning round: the file after it
backup(file, enabled, pruned, written) ==
    IF enabled /\ Len(pruned) > 0 THEN file \o backup_lines(pruned, written) ELSE file

\* step 2, outside the lock: the backup of the chosen entries, an exception
\* of which is logged
EvictorBackup(written) ==
    /\ evictor.pc = "backup"
    /\ evictor' = [evictor EXCEPT !.pc = "delete"]
    /\ backup_file' = backup(backup_file, curiosity.embedding_cache_backup_enabled,
                             evictor.pruned_items, written)
    /\ UNCHANGED <<curiosity, embedding_cache, prune_event, prune_shutdown, caller, sd>>
    /\ UNCHANGED <<managerVars, disk, fileVars, pressureVars, questionVars, temperamentVars>>

\* step 3, under the lock: delete the chosen entries that are still there
EvictorDelete ==
    /\ evictor.pc = "delete"
    /\ embedding_cache' = delete_items(embedding_cache, evictor.pruned_items)
    /\ evictor' = [evictor EXCEPT !.pc = "check"]
    /\ UNCHANGED <<curiosity, prune_event, prune_shutdown, caller, sd>>
    /\ UNCHANGED <<managerVars, disk, fileVars, pressureVars, questionVars, temperamentVars>>
    /\ UNCHANGED backup_file

\* if len(self.embedding_cache) <= maxlen or self._prune_shutdown: break
EvictorCheck ==
    /\ evictor.pc = "check"
    /\ evictor' = [evictor EXCEPT !.pc = IF ~OverCap \/ prune_shutdown THEN "clear" ELSE "select"]
    /\ UNCHANGED <<curiosity, embedding_cache, prune_event, prune_shutdown, caller, sd>>
    /\ UNCHANGED <<managerVars, disk, fileVars, pressureVars, questionVars, temperamentVars>>
    /\ UNCHANGED backup_file

\* self._prune_event.clear()
EvictorClear ==
    /\ evictor.pc = "clear"
    /\ prune_event' = FALSE
    /\ evictor' = [evictor EXCEPT !.pc = "while"]
    /\ UNCHANGED <<curiosity, embedding_cache, prune_shutdown, caller, sd>>
    /\ UNCHANGED <<managerVars, disk, fileVars, pressureVars, questionVars, temperamentVars>>
    /\ UNCHANGED backup_file

\* _background_prune_loop: its next step
Evictor ==
    \/ EvictorWhile \/ EvictorWait \/ EvictorSelect
    \/ (\E written \in Written : EvictorBackup(written))
    \/ EvictorDelete \/ EvictorCheck \/ EvictorClear

\* put(key, entry): a new entry, last_access the time of the call; _prune_cache
\* follows
Put ==
    /\ caller.pc = "idle"
    /\ caller.nPuts < caller.puts
    /\ embedding_cache' = Append(embedding_cache,
                                 [key |-> caller.nPuts + 1, last_access |-> caller.clock + 1])
    /\ caller' = [caller EXCEPT !.pc = "prune_cache", !.clock = @ + 1, !.nPuts = @ + 1]
    /\ UNCHANGED <<curiosity, prune_event, prune_shutdown, evictor, sd>>
    /\ UNCHANGED <<managerVars, disk, fileVars, pressureVars, questionVars, temperamentVars>>
    /\ UNCHANGED backup_file

\* get(key): the entry is read and its last_access becomes the time of the call
GetEntry(key) ==
    /\ caller.pc = "idle"
    /\ caller.nGets < MaxGets
    /\ \E i \in DOMAIN embedding_cache :
         /\ embedding_cache[i].key = key
         /\ embedding_cache' = [embedding_cache EXCEPT ![i].last_access = caller.clock + 1]
    /\ caller' = [caller EXCEPT !.clock = @ + 1, !.nGets = @ + 1]
    /\ UNCHANGED <<curiosity, prune_event, prune_shutdown, evictor, sd>>
    /\ UNCHANGED <<managerVars, disk, fileVars, pressureVars, questionVars, temperamentVars>>
    /\ UNCHANGED backup_file

\* _prune_cache; monitor_high: the memory managers are there and report a
\* usage above 80, or fail
PruneCache(monitor_high) ==
    /\ caller.pc = "prune_cache"
    /\ prune_event' = IF (monitor_high \/ OverCap) /\ curiosity.background_pruning_enabled
                      THEN event_set(prune_event) ELSE prune_event
    /\ caller' = [caller EXCEPT !.found = OverCap,
                    !.pc = IF (monitor_high \/ OverCap) /\ ~curiosity.background_pruning_enabled
                           THEN "main_select" ELSE "idle"]
    /\ UNCHANGED <<curiosity, embedding_cache, prune_shutdown, evictor, sd>>
    /\ UNCHANGED <<managerVars, disk, fileVars, pressureVars, questionVars, temperamentVars>>
    /\ UNCHANGED backup_file

\* _prune_cache_main_thread, step 1
MainSelect ==
    /\ caller.pc = "main_select"
    /\ caller' = [caller EXCEPT !.pc = "main_backup",
                    !.initial_cache_size = Len(embedding_cache),
                    !.pruned_items = pruned_items(embedding_cache,
                                                  curiosity.embedding_cache_prune_batch)]
    /\ UNCHANGED <<curiosity, embedding_cache, prune_event, prune_shutdown, evictor, sd>>
    /\ UNCHANGED <<managerVars, disk, fileVars, pressureVars, questionVars, temperamentVars>>
    /\ UNCHANGED backup_file

\* _prune_cache_main_thread, step 2
MainBackup(written) ==
    /\ caller.pc = "main_backup"
    /\ caller' = [caller EXCEPT !.pc = "main_delete"]
    /\ backup_file' = backup(backup_file, curiosity.embedding_cache_backup_enabled,
                             caller.pruned_items, written)
    /\ UNCHANGED <<curiosity, embedding_cache, prune_event, prune_shutdown, evictor, sd>>
    /\ UNCHANGED <<managerVars, disk, fileVars, pressureVars, questionVars, temperamentVars>>

\* _prune_cache_main_thread, step 3
MainDelete ==
    /\ caller.pc = "main_delete"
    /\ embedding_cache' = delete_items(embedding_cache, caller.pruned_items)
    /\ caller' = [caller EXCEPT !.pc = "idle"]
    /\ UNCHANGED <<curiosity, prune_event, prune_shutdown, evictor, sd>>
    /\ UNCHANGED <<managerVars, disk, fileVars, pressureVars, questionVars, temperamentVars>>
    /\ UNCHANGED backup_file

\* shutdown_prune_thread: self._prune_shutdown = True
ShutdownFlag ==
    /\ sd.pc = "idle"
    /\ sd.n < MaxShutdowns
    /\ prune_shutdown' = TRUE
    /\ sd' = [sd EXCEPT !.pc = "set", !.at = IF sd.n = 0 THEN evictor.pc ELSE @]
    /\ UNCHANGED <<curiosity, embedding_cache, prune_event, evictor, caller>>
    /\ UNCHANGED <<managerVars, disk, fileVars, pressureVars, questionVars, temperamentVars>>
    /\ UNCHANGED backup_file

\* shutdown_prune_thread: self._prune_event.set()
ShutdownSet ==
    /\ sd.pc = "set"
    /\ prune_event' = event_set(prune_event)
    /\ sd' = [sd EXCEPT !.pc = "join"]
    /\ UNCHANGED <<curiosity, embedding_cache, prune_shutdown, evictor, caller>>
    /\ UNCHANGED <<managerVars, disk, fileVars, pressureVars, questionVars, temperamentVars>>
    /\ UNCHANGED backup_file

\* shutdown_prune_thread: the join, if there is a thread, and the return
ShutdownJoin ==
    /\ sd.pc = "join"
    /\ evictor.pc \in {"none", "exited"}
    /\ sd' = [sd EXCEPT !.pc = "idle", !.n = @ + 1]
    /\ UNCHANGED <<curiosity, embedding_cache, prune_event, prune_shutdown, evictor, caller>>
    /\ UNCHANGED <<managerVars, disk, fileVars, pressureVars, questionVars, temperamentVars>>
    /\ UNCHANGED backup_file

\* the steps a thread that began a call goes on to take
CallerRuns ==
    \/ (\E h \in BOOLEAN : PruneCache(h)) \/ MainSelect
    \/ (\E written \in Written : MainBackup(written)) \/ MainDelete
ShutdownRuns == ShutdownSet \/ ShutdownJoin

NextEvictor ==
    \/ EvictorWhile \/ EvictorWait \/ EvictorSelect
    \/ \E written \in Written : EvictorBackup(written)
    \/ EvictorDelete \/ EvictorCheck \/ EvictorClear
    \/ Put
    \/ \E key \in 1..MaxPuts : GetEntry(key)
    \/ \E monitor_high \in BOOLEAN : PruneCache(monitor_high)
    \/ MainSelect \/ (\E written \in Written : MainBackup(written)) \/ MainDelete
    \/ ShutdownFlag \/ ShutdownSet \/ ShutdownJoin

SpecCache == InitCache /\ [][NextEvictor]_vars

\* every thread that can take a step takes one in the end
SpecEvictor ==
    /\ InitEvictor /\ [][NextEvictor]_vars
    /\ WF_vars(Evictor) /\ WF_vars(CallerRuns) /\ WF_vars(ShutdownRuns)

-----------------------------------------------------------------------------
(* The embedding cache *)

\* C16: with background pruning and no shutdown, once _prune_cache has found
\* the cache above embedding_cache_maxlen the cache comes back to it
C16_EvictorRestoresCap ==
    (curiosity.background_pruning_enabled /\ caller.pc = "idle" /\ caller.found /\ OverCap)
        ~> (~OverCap \/ prune_shutdown)

Keys(items) == {items[i].key : i \in DOMAIN items}

\* pruned are min(prune_batch, |items|) entries of items, none of them
\* accessed later than an entry that is left
Selected(items, pruned) ==
    /\ Len(pruned) = Min(curiosity.embedding_cache_prune_batch, Len(items))
    /\ Cardinality(Keys(pruned)) = Len(pruned)
    /\ \A i \in DOMAIN pruned : \E j \in DOMAIN items : items[j] = pruned[i]
    /\ \A i \in DOMAIN pruned, j \in DOMAIN items :
         items[j].key \notin Keys(pruned) => pruned[i].last_access <= items[j].last_access

\* the round deleted the entries it had chosen, and no entry it leaves was
\* accessed before one of them was when chosen
Evicted(before, pruned, after) ==
    /\ Keys(after) = Keys(before) \ Keys(pruned)
    /\ \A i \in DOMAIN pruned, j \in DOMAIN after :
         pruned[i].last_access <= after[j].last_access

\* C17: a round of the evictor thread or of the caller's thread chooses the
\* min(prune_batch, |cache|) entries of smallest last_access, and deletes
\* them: each had, when chosen, a last_access at most that of every entry the
\* round leaves
C17_EvictionIsLRU ==
    [][ /\ evictor.pc = "select" /\ evictor'.pc = "backup" =>
               Selected(embedding_cache, evictor'.pruned_items)
        /\ caller.pc = "main_select" /\ caller'.pc = "main_backup" =>
               Selected(embedding_cache, caller'.pruned_items)
        /\ evictor.pc = "delete" /\ evictor'.pc = "check" =>
               Evicted(embedding_cache, evictor.pruned_items, embedding_cache')
        /\ caller.pc = "main_delete" /\ caller'.pc = "idle" =>
               Evicted(embedding_cache, caller.pruned_items, embedding_cache') ]_vars

\* cap 4, batch 2, six entries of last_access 1..6: the round has deleted
\* entries 1 and 2
C17_Witness ==
    /\ curiosity.embedding_cache_maxlen = 4 /\ curiosity.embedding_cache_prune_batch = 2
    /\ evictor.pc = "check" /\ evictor.initial_cache_size = 6
    /\ evictor.pruned_items = << [key |-> 1, last_access |-> 1], [key |-> 2, last_access |-> 2] >>
    /\ embedding_cache = [i \in 1..4 |-> [key |-> i + 2, last_access |-> i + 2]]

\* C18: every call of shutdown_prune_thread returns, the evictor thread, if
\* there is one, having left its loop; the second call too
C18_ShutdownJoins ==
    \A n \in 0..(MaxShutdowns - 1) :
        (sd.pc # "idle" /\ sd.n = n)
            ~> (sd.pc = "idle" /\ sd.n = n + 1 /\ evictor.pc \in {"none", "exited"})

\* two calls have returned; the first came when the evictor thread was about
\* to clear the event
C18_Witness ==
    /\ sd.pc = "idle" /\ sd.n = 2
    /\ sd.at = "clear"
    /\ evictor.pc = "exited"

-----------------------------------------------------------------------------
(* CuriosityPressure.  Pressures are in hundredths, decay_rate in tenths    *)
(* per second, times in seconds.                                            *)

MaxTime == 6
MaxPressureCalls == 3

\* (min_pressure, base_pressure, max_pressure, decay_rate, eruption_cooldown)
PressureSettings == { <<0, 50, 100, 1, 2>>, <<20, 50, 80, 5, 2>>, <<0, 75, 100, 0, 2>> }

\* time.time() when the CuriosityPressure is built
TimesAtStart == {0, 3}

Max(a, b) == IF a >= b THEN a ELSE b

\* decay_pressure(current_time)
decay_pressure(p, current_time) ==
    [p EXCEPT !.current_pressure =
                  Max(p.min_pressure,
                      (@ * (10 - p.decay_rate * (current_time - p.last_update))) \div 10),
              !.last_update = current_time]

\* a cooldown that has elapsed when now is cooldown after the last eruption
cooldown_reached(t, last_eruption_time, cooldown) == t - last_eruption_time >= cooldown

\* now - self._last_eruption_time > self.cooldown
cooldown_elapsed(t, last_eruption_time, cooldown) == t - last_eruption_time > cooldown

\* check_eruption(threshold, drop), time.time() being t, after its call of
\* decay_pressure
erupt(p, t, threshold, drop) ==
    IF p.current_pressure >= threshold
       /\ cooldown_elapsed(t, p.last_eruption_time, p.cooldown)
    THEN [p EXCEPT !.current_pressure = Max(p.min_pressure, @ - drop),
                   !.last_eruption_time = t, !.ret = "true",
                   !.erupted = Append(@, t)]
    ELSE [p EXCEPT !.ret = "false"]

\* a check that leaves the decay out
check_undecayed(p, t, threshold, drop) == erupt(p, t, threshold, drop)

check_eruption(p, t, threshold, drop) == erupt(decay_pressure(p, t), t, threshold, drop)

\* _maybe_generate_internal_question: the pressure grows by score * 0.1,
\* score in tenths
add_pressure(p, score) ==
    [p EXCEPT !.current_pressure = Min(p.max_pressure, @ + score)]

InitPressure ==
    /\ ManagerInit /\ FileInit /\ CacheInit /\ QuestionInit /\ TemperamentInit
    /\ now \in TimesAtStart
    /\ \E c \in PressureSettings :
         pressure = [base_pressure |-> c[2], max_pressure |-> c[3], min_pressure |-> c[1],
                     decay_rate |-> c[4], cooldown |-> c[5], current_pressure |-> c[2],
                     last_update |-> now, last_eruption_time |-> 0, ret |-> "none",
                     erupted |-> <<>>, nCalls |-> 0, threshold |-> 0, drop |-> 0]

\* time passes
Tick ==
    /\ now < MaxTime
    /\ now' = now + 1
    /\ UNCHANGED <<pressure, managerVars, disk, fileVars, cacheVars, questionVars, temperamentVars>>

PressureReady == pressure.nCalls < MaxPressureCalls

DecayPressure(current_time) ==
    /\ PressureReady
    /\ pressure' = [decay_pressure(pressure, current_time) EXCEPT !.nCalls = @ + 1, !.ret = "none"]
    /\ UNCHANGED <<now, managerVars, disk, fileVars, cacheVars, questionVars, temperamentVars>>

AddPressure(score) ==
    /\ PressureReady
    /\ pressure' = [add_pressure(pressure, score) EXCEPT !.nCalls = @ + 1, !.ret = "none"]
    /\ UNCHANGED <<now, managerVars, disk, fileVars, cacheVars, questionVars, temperamentVars>>

CheckEruption(threshold, drop) ==
    /\ PressureReady
    /\ pressure' = [check_eruption(pressure, now, threshold, drop) EXCEPT
                        !.nCalls = @ + 1, !.threshold = threshold, !.drop = drop]
    /\ UNCHANGED <<now, managerVars, disk, fileVars, cacheVars, questionVars, temperamentVars>>

NextPressure ==
    \/ Tick
    \/ \E current_time \in 0..MaxTime : DecayPressure(current_time)
    \/ \E score \in {0, 5, 10} : AddPressure(score)
    \/ \E threshold \in {50, 70}, drop \in {0, 30} : CheckEruption(threshold, drop)

SpecPressure == InitPressure /\ [][NextPressure]_vars

-----------------------------------------------------------------------------
(* The pressure *)

\* C19: the pressure stays between min_pressure and max_pressure
C19_PressureInRange ==
    /\ pressure.min_pressure <= pressure.current_pressure
    /\ pressure.current_pressure <= pressure.max_pressure

\* C20: two calls of check_eruption that return True are more than cooldown
\* apart
C20_OneEruptionPerCooldown ==
    \A i, j \in DOMAIN pressure.erupted :
        i < j => pressure.erupted[j] - pressure.erupted[i] > pressure.cooldown

\* two eruptions, the second as soon as the cooldown allows
C20_Witness ==
    /\ Len(pressure.erupted) = 2
    /\ pressure.ret = "true"
    /\ pressure.erupted[2] - pressure.erupted[1] = pressure.cooldown + 1

\* the pressure decay_pressure(now) leaves
Decayed ==
    Max(pressure.min_pressure,
        (pressure.current_pressure * (10 - pressure.decay_rate * (now - pressure.last_update)))
            \div 10)

\* a step is a call of check_eruption
Checked == pressure'.nCalls = pressure.nCalls + 1 /\ pressure'.ret \in {"true", "false"}

\* C21: check_eruption decays, returns True exactly when the decayed pressure
\* is at least threshold and more than cooldown has passed since the last
\* eruption, then drops the pressure (not under min_pressure) and notes the
\* time; on False it leaves the decayed pressure and the time of the last
\* eruption
C21_CheckEruption ==
    [][ Checked =>
          /\ pressure'.last_update = now
          /\ pressure'.ret = "true" <=>
                 /\ Decayed >= pressure'.threshold
                 /\ now - pressure.last_eruption_time > pressure.cooldown
          /\ pressure'.ret = "true" =>
                 /\ pressure'.current_pressure = Max(pressure.min_pressure, Decayed - pressure'.drop)
                 /\ pressure'.last_eruption_time = now
          /\ pressure'.ret = "false" =>
                 /\ pressure'.current_pressure = Decayed
                 /\ pressure'.last_eruption_time = pressure.last_eruption_time ]_vars

\* threshold 0.7, drop 0.3, no decay, pressure 0.75: the first call returned
\* True and left 0.45, the second call, at the same time, returned False
C21_Witness ==
    /\ pressure.decay_rate = 0 /\ pressure.base_pressure = 75
    /\ pressure.threshold = 70 /\ pressure.drop = 30
    /\ pressure.nCalls = 2 /\ pressure.ret = "false"
    /\ pressure.erupted = <<now>>
    /\ pressure.current_pressure = 45

-----------------------------------------------------------------------------
(* CuriosityManager: scores and the buffer of internal questions.  Scores, *)
(* similarities, thresholds and weights are in hundredths, times in        *)
(* seconds.  A question is the number of the text that generate_text       *)
(* returned for it.                                                        *)

MaxAdds == 2            \* calls of _maybe_generate_internal_question
MaxQuestionCalls == 1   \* calls of generate_curiosity_question, ask_user_curiosity_question
MaxScoreCalls == 1

\* the time of the first call
QuestionStart == 4

\* (min_pressure, base_pressure, max_pressure, decay_rate, cooldown)
QuestionPressures == { <<0, 50, 100, 1, 2>>, <<0, 75, 100, 0, 2>> }

\* (curiosity_threshold, internal_threshold_factor, max_internal_questions,
\*  internal_decay_seconds, weight_ignorance, weight_novelty,
\*  pressure_threshold, pressure_drop)
ManagerSettings == { <<50, 75, 2, 1, 70, 30, 70, 30>>, <<50, 75, 3, 1, 50, 50, 70, 30>> }

\* what the collaborators answer during one call: the StateManager is there,
\* it has seen prompts, the greatest cosine similarity to them, the embedder
\* works, the recaller is there, the long-term memory works and has a match,
\* the cosine similarity to that match
World(sm, prompts, sim, emb, rec, mem, match, best) ==
    [state_manager |-> sm, seen_prompts |-> prompts, similarity |-> sim, embedder_ok |-> emb,
     recaller |-> rec, memory_ok |-> mem, match |-> match, best_similarity |-> best]

\* (similarity to the seen prompts, similarity to the memory match)
Similarities ==
    { <<0 - 100, 0 - 100>>, <<20, 20>>, <<40, 40>>, <<40, 50>>, <<20, 100>>, <<40, 100>>,
      <<100, 100>>, <<100, 0>> }

Healthy == { World(TRUE, TRUE, s[1], TRUE, TRUE, TRUE, TRUE, s[2]) : s \in Similarities }

Degraded ==
    { World(FALSE, TRUE, 40, TRUE, TRUE, TRUE, TRUE, 40),
      World(TRUE, TRUE, 40, FALSE, TRUE, TRUE, TRUE, 40),
      World(TRUE, TRUE, 40, TRUE, TRUE, FALSE, TRUE, 40),
      World(TRUE, TRUE, 40, TRUE, FALSE, TRUE, TRUE, 40),
      World(TRUE, TRUE, 40, TRUE, TRUE, TRUE, FALSE, 40),
      World(TRUE, FALSE, 40, TRUE, TRUE, TRUE, TRUE, 40) }

Worlds == Healthy \cup Degraded

Score(w) == (100 - w.similarity + 100 - w.best_similarity) \div 2

\* the worlds of the calls that fill the buffer: scores 0.6 and 0.8
AddWorlds == { w \in Healthy : Score(w) \in {60, 80} }

\* the worlds of the calls that empty it: scores 0.55, 0.4 and 0.3
QuestionWorlds == { w \in Healthy : Score(w) \in {55, 40, 30} }

\* a collaborator fails: no StateManager, the embedder or the similarity
\* raises, the long-term memory raises
failure(w) == ~w.state_manager \/ ~w.embedder_ok \/ ~w.memory_ok

Returned(v) == [raised |-> FALSE, value |-> v]
Raises == [raised |-> TRUE, value |-> NoScore]

_calculate_novelty(w) ==
    IF ~w.state_manager THEN Raises
    ELSE IF ~w.seen_prompts THEN Returned(100)
    ELSE IF ~w.embedder_ok THEN Raises
    ELSE Returned(100 - w.similarity)

_calculate_ignorance(w) ==
    IF ~w.state_manager THEN Raises
    ELSE IF ~w.recaller THEN Returned(100)
    ELSE IF ~w.memory_ok THEN Returned(100)
    ELSE IF ~w.match THEN Returned(100)
    ELSE Returned(Max(0, Min(100, 100 - w.best_similarity)))

calculate_curiosity_score(w) ==
    IF _calculate_novelty(w).raised \/ _calculate_ignorance(w).raised
    THEN [raised |-> TRUE, value |-> NoScore, novelty |-> NoScore, ignorance |-> NoScore]
    ELSE [raised |-> FALSE,
          value |-> (50 * _calculate_novelty(w).value + 50 * _calculate_ignorance(w).value) \div 100,
          novelty |-> _calculate_novelty(w).value,
          ignorance |-> _calculate_ignorance(w).value]

\* the entries of the deque that are not older than internal_decay_seconds
prune_by_age(internal_questions, cutoff) ==
    SelectSeq(internal_questions, LAMBDA e : e.t >= cutoff)

\* deque(maxlen).append
deque_append(d, e, maxlen) ==
    IF maxlen = 0 THEN d
    ELSE IF Len(d) >= maxlen THEN Append(Tail(d), e)
    ELSE Append(d, e)

\* score >= curiosity_threshold * internal_threshold_factor
reaches_internal(c, score) == 100 * score >= c.curiosity_threshold * c.internal_threshold_factor

\* the first entry of the buffer
first_entry(internal_questions) == internal_questions[1]

\* max(self._internal_questions, key=lambda x: x[1]): the first of the
\* entries with the greatest score
max_by_score(internal_questions) ==
    internal_questions[CHOOSE i \in 1..Len(internal_questions) :
        /\ \A j \in 1..Len(internal_questions) : internal_questions[j].s <= internal_questions[i].s
        /\ \A j \in 1..(i - 1) : internal_questions[j].s < internal_questions[i].s]

\* the deque that is kept as it is
cleared_not(internal_questions) == internal_questions

\* self._internal_questions.clear()
cleared(internal_questions) == <<>>

\* one call starts: its results are reset
Begin(c, op, w) ==
    [c EXCEPT !.op = op, !.ret = "none", !.value = NoScore, !.score = NoScore,
              !.novelty = NoScore, !.ignorance = NoScore, !.failure = failure(w),
              !.erupted = FALSE, !.fallback = FALSE]

Calling(c, op, w) == [Begin(c, op, w) EXCEPT !.nCalls = @ + 1]

Adding(c, op, w) == [Begin(c, op, w) EXCEPT !.nAdds = @ + 1]

Scored(c, r) == [c EXCEPT !.score = r.value, !.novelty = r.novelty, !.ignorance = r.ignorance]

\* _maybe_generate_internal_question once the score r is there; gen: the
\* generation manager returned a text
_maybe_generate_internal_question(c, r, t, gen) ==
    IF reaches_internal(c, r.value) /\ gen
    THEN [c EXCEPT !.internal_questions =
                       deque_append(prune_by_age(@, t - c.internal_decay_seconds),
                                    [q |-> c.generated + 1, s |-> r.value, t |-> t],
                                    c.max_internal_questions),
                   !.generated = @ + 1]
    ELSE [c EXCEPT !.internal_questions = prune_by_age(@, t - c.internal_decay_seconds)]

\* steps 2 to 4 of generate_curiosity_question, on the manager b that step 1 left
release_question(b, r) ==
    IF r.value < b.curiosity_threshold \/ b.internal_questions = <<>>
    THEN [b EXCEPT !.ret = "None"]
    ELSE [b EXCEPT !.ret = "question", !.value = max_by_score(b.internal_questions).q,
                   !.internal_questions = cleared(@)]

generate_curiosity_question(c, r, t, gen) ==
    release_question(_maybe_generate_internal_question(c, r, t, gen), r)

\* an utterance that never reaches the output
output_nothing(output, question) == output

\* output_curiosity_utterance(question): the question is on the output
output_curiosity_utterance(output, question) == Append(output, question)

\* ask_user_curiosity_question after check_eruption returned true;
\* last_prompt: get_last_prompt returned a prompt that is not blank
ask_user_curiosity_question(c, w, last_prompt, gen) ==
    IF c.internal_questions # <<>>
    THEN [c EXCEPT !.ret = "response", !.value = max_by_score(c.internal_questions).q,
                   !.output = output_curiosity_utterance(@, max_by_score(c.internal_questions).q),
                   !.internal_questions = cleared(@)]
    ELSE IF ~w.state_manager \/ ~last_prompt THEN [c EXCEPT !.ret = "None"]
    ELSE IF calculate_curiosity_score(w).raised
         THEN [c EXCEPT !.ret = "raised", !.fallback = TRUE]
    ELSE IF ~gen
         THEN [Scored(c, calculate_curiosity_score(w)) EXCEPT
                   !.ret = "None", !.fallback = TRUE]
    ELSE [Scored(c, calculate_curiosity_score(w)) EXCEPT
              !.ret = "response", !.fallback = TRUE, !.generated = @ + 1,
              !.value = c.generated + 1,
              !.output = output_curiosity_utterance(@, c.generated + 1)]

\* get_curiosity_score(prompt)
get_curiosity_score(c, w, prompt) ==
    IF ~prompt THEN [c EXCEPT !.ret = "score", !.value = c.curiosity_score, !.failure = FALSE]
    ELSE IF calculate_curiosity_score(w).raised THEN [c EXCEPT !.ret = "raised"]
    ELSE [Scored(c, calculate_curiosity_score(w)) EXCEPT
              !.ret = "score", !.value = calculate_curiosity_score(w).value]

\* vibe_profile.dimensions.get("curiosity", 0.5), NoScore without a profile
Vibes == {NoScore, 0, 100}

compute_curiosity(c, w, vibe) ==
    IF calculate_curiosity_score(w).raised THEN [c EXCEPT !.ret = "score", !.value = 50]
    ELSE [Scored(c, calculate_curiosity_score(w)) EXCEPT
              !.ret = "score",
              !.value = Max(0, Min(100,
                            IF vibe = NoScore THEN calculate_curiosity_score(w).value
                            ELSE (50 * calculate_curiosity_score(w).value + 50 * vibe) \div 100))]

get_novelty_score(c, w) ==
    IF calculate_curiosity_score(w).raised THEN [c EXCEPT !.ret = "score", !.value = 50]
    ELSE [Scored(c, calculate_curiosity_score(w)) EXCEPT
              !.ret = "score", !.value = calculate_curiosity_score(w).value]

\* CuriosityManager(...) and its CuriosityPressure, built at QuestionStart;
\* callers: the threads that will call it
InitManager(callers) ==
    /\ ManagerInit /\ FileInit /\ CacheInit /\ TemperamentInit
    /\ now = QuestionStart
    /\ threads = callers
    /\ \E c \in QuestionPressures :
         pressure = [base_pressure |-> c[2], max_pressure |-> c[3], min_pressure |-> c[1],
                     decay_rate |-> c[4], cooldown |-> c[5], current_pressure |-> c[2],
                     last_update |-> now, last_eruption_time |-> 0, ret |-> "none",
                     erupted |-> <<>>, nCalls |-> 0, threshold |-> 0, drop |-> 0]
    /\ \E s \in ManagerSettings :
         cm = [NoManager EXCEPT
                  !.curiosity_threshold = s[1], !.internal_threshold_factor = s[2],
                  !.max_internal_questions = s[3], !.internal_decay_seconds = s[4],
                  !.weight_ignorance = s[5], !.weight_novelty = s[6],
                  !.pressure_threshold = s[7], !.pressure_drop = s[8]]

InitQuestions == InitManager(NoThreads)

QuestionReady == cm.nCalls < MaxQuestionCalls
AddReady == cm.nAdds < MaxAdds
ScoreReady == cm.nCalls < MaxScoreCalls

othersUnchanged == UNCHANGED <<managerVars, disk, fileVars, cacheVars, temperamentVars>>

CalculateCuriosityScore(w) ==
    /\ ScoreReady
    /\ cm' = IF calculate_curiosity_score(w).raised
             THEN [Calling(cm, "calculate_curiosity_score", w) EXCEPT !.ret = "raised"]
             ELSE [Scored(Calling(cm, "calculate_curiosity_score", w), calculate_curiosity_score(w))
                      EXCEPT !.ret = "score", !.value = calculate_curiosity_score(w).value]
    /\ UNCHANGED <<pressure, now>>
    /\ othersUnchanged /\ UNCHANGED threads

GetCuriosityScore(w, prompt) ==
    /\ ScoreReady
    /\ cm' = get_curiosity_score(Calling(cm, "get_curiosity_score", w), w, prompt)
    /\ UNCHANGED <<pressure, now>>
    /\ othersUnchanged /\ UNCHANGED threads

GetNoveltyScore(w) ==
    /\ ScoreReady
    /\ cm' = get_novelty_score(Calling(cm, "get_novelty_score", w), w)
    /\ UNCHANGED <<pressure, now>>
    /\ othersUnchanged /\ UNCHANGED threads

ComputeCuriosity(w, vibe) ==
    /\ ScoreReady
    /\ cm' = compute_curiosity(Calling(cm, "compute_curiosity", w), w, vibe)
    /\ UNCHANGED <<pressure, now>>
    /\ othersUnchanged /\ UNCHANGED threads

\* the pressure grows by score * 0.1, in whole hundredths
MaybeGenerateInternalQuestion(w, gen) ==
    /\ AddReady
    /\ IF calculate_curiosity_score(w).raised
       THEN /\ cm' = [Adding(cm, "_maybe_generate_internal_question", w) EXCEPT !.ret = "raised"]
            /\ UNCHANGED pressure
       ELSE /\ pressure' = add_pressure(pressure, calculate_curiosity_score(w).value \div 10)
            /\ cm' = [_maybe_generate_internal_question(
                          Scored(Adding(cm, "_maybe_generate_internal_question", w),
                                 calculate_curiosity_score(w)),
                          calculate_curiosity_score(w), now, gen) EXCEPT !.ret = "None"]
    /\ UNCHANGED now
    /\ othersUnchanged /\ UNCHANGED threads

GenerateCuriosityQuestion(w, gen) ==
    /\ QuestionReady
    /\ IF calculate_curiosity_score(w).raised
       THEN /\ cm' = [Calling(cm, "generate_curiosity_question", w) EXCEPT !.ret = "raised"]
            /\ UNCHANGED pressure
       ELSE /\ pressure' = add_pressure(pressure, calculate_curiosity_score(w).value \div 10)
            /\ cm' = generate_curiosity_question(
                         Scored(Calling(cm, "generate_curiosity_question", w),
                                calculate_curiosity_score(w)),
                         calculate_curiosity_score(w), now, gen)
    /\ UNCHANGED now
    /\ othersUnchanged /\ UNCHANGED threads

AskUserCuriosityQuestion(w, last_prompt, gen) ==
    /\ QuestionReady
    /\ pressure' = [check_eruption(pressure, now, cm.pressure_threshold, cm.pressure_drop) EXCEPT
                        !.threshold = cm.pressure_threshold, !.drop = cm.pressure_drop]
    /\ cm' = IF pressure'.ret = "true"
             THEN ask_user_curiosity_question(
                      [Calling(cm, "ask_user_curiosity_question", w) EXCEPT !.erupted = TRUE],
                      w, last_prompt, gen)
             ELSE [Calling(cm, "ask_user_curiosity_question", w) EXCEPT !.ret = "None"]
    /\ UNCHANGED now
    /\ othersUnchanged /\ UNCHANGED threads

NextScore ==
    \/ \E w \in Worlds : CalculateCuriosityScore(w)
    \/ \E w \in Worlds, prompt \in BOOLEAN : GetCuriosityScore(w, prompt)
    \/ \E w \in Worlds : GetNoveltyScore(w)
    \/ \E w \in Worlds, vibe \in Vibes : ComputeCuriosity(w, vibe)
    \/ \E w \in Worlds, gen \in BOOLEAN : GenerateCuriosityQuestion(w, gen)

SpecScore == InitQuestions /\ [][NextScore]_vars

NextQuestions ==
    \/ Tick
    \/ \E w \in AddWorlds, gen \in BOOLEAN : MaybeGenerateInternalQuestion(w, gen)
    \/ \E w \in QuestionWorlds, gen \in BOOLEAN : GenerateCuriosityQuestion(w, gen)
    \/ \E w \in QuestionWorlds, last_prompt \in BOOLEAN, gen \in BOOLEAN :
           AskUserCuriosityQuestion(w, last_prompt, gen)

SpecQuestions == InitQuestions /\ [][NextQuestions]_vars

-----------------------------------------------------------------------------
(* The release of buffered questions *)

\* a call of generate_curiosity_question that returned
Generating ==
    /\ cm'.op = "generate_curiosity_question"
    /\ cm'.nCalls = cm.nCalls + 1
    /\ cm'.ret # "raised"

\* the entries that are within their age limit when the call is made
Live == SelectSeq(cm.internal_questions, LAMBDA e : e.t >= now - cm.internal_decay_seconds)

\* the call put a question of its own into the buffer
Buffered == cm'.generated = cm.generated + 1

\* the call put its question into a buffer that was full
Overflowed == Buffered /\ Len(Live) >= cm.max_internal_questions

\* the buffer the call chooses from
AtSelection ==
    { Live[i] : i \in (IF Overflowed THEN 2 ELSE 1)..Len(Live) }
    \cup (IF Buffered THEN { [q |-> cm'.generated, s |-> cm'.score, t |-> now] } ELSE {})

ReleasesBest ==
    /\ cm'.ret \in {"question", "None"}
    /\ cm'.ret = "question" =>
          /\ cm'.score >= cm.curiosity_threshold
          /\ AtSelection # {}
          /\ \E e \in AtSelection : e.q = cm'.value /\ \A f \in AtSelection : f.s <= e.s
          /\ cm'.internal_questions = <<>>
    /\ cm'.score < cm.curiosity_threshold => cm'.ret = "None"

Remains(i) == \E j \in 1..Len(cm'.internal_questions) : cm'.internal_questions[j] = Live[i]

\* C22, as stated: generate_curiosity_question releases a question only
\* when the score of the prompt reaches curiosity_threshold and the buffer is
\* not empty; the question it returns is the buffered entry with the
\* greatest score, and the buffer is empty afterwards; when the score is
\* below the threshold it returns None and removes no buffered entry that is
\* within its age limit.
C22_ReleaseKeepsAll ==
    [][ Generating =>
          /\ ReleasesBest
          /\ cm'.score < cm.curiosity_threshold => \A i \in 1..Len(Live) : Remains(i)
      ]_vars

\* C22, amended: as above, but a call whose score lies between the internal
\* threshold and curiosity_threshold buffers a question of its own, and when
\* the buffer is full the deque drops its oldest entry for it; every other
\* entry within its age limit stays.
C22_ReleaseRule ==
    [][ Generating =>
          /\ ReleasesBest
          /\ cm'.score < cm.curiosity_threshold =>
                \A i \in 1..Len(Live) : Remains(i) \/ (i = 1 /\ Overflowed)
      ]_vars

\* buffer [(Q1, 0.6), (Q2, 0.8)], a prompt of score 0.55: Q2 is returned and
\* the buffer is empty
C22_Witness ==
    /\ cm.op = "generate_curiosity_question"
    /\ cm.score = 55
    /\ cm.generated = 3
    /\ cm.ret = "question"
    /\ cm.value = 2
    /\ cm.internal_questions = <<>>

\* a call of ask_user_curiosity_question
Asking ==
    /\ cm'.op = "ask_user_curiosity_question"
    /\ cm'.nCalls = cm.nCalls + 1

\* C23: ask_user_curiosity_question puts a question on the output only in
\* a call in which check_eruption returned true, and at most one per call;
\* when the buffer is not empty the question is the buffered entry with the
\* greatest score, the buffer is cleared and no fallback is generated; a
\* fallback is generated only when the buffer is empty; when check_eruption
\* returned false the call returns None and leaves the buffer as it is.
C23_AskOnEruption ==
    [][ /\ cm'.output # cm.output =>
              /\ Asking
              /\ pressure'.ret = "true"
              /\ Len(cm'.output) = Len(cm.output) + 1
              /\ SubSeq(cm'.output, 1, Len(cm.output)) = cm.output
        /\ Asking =>
              /\ pressure'.ret \in {"true", "false"}
              /\ cm'.erupted <=> pressure'.ret = "true"
              /\ (pressure'.ret = "true" /\ cm.internal_questions # <<>>) =>
                    /\ \E i \in 1..Len(cm.internal_questions) :
                          /\ cm'.output = Append(cm.output, cm.internal_questions[i].q)
                          /\ \A j \in 1..Len(cm.internal_questions) :
                                cm.internal_questions[j].s <= cm.internal_questions[i].s
                    /\ cm'.internal_questions = <<>>
                    /\ ~cm'.fallback
                    /\ cm'.generated = cm.generated
              /\ (cm'.fallback \/ cm'.generated # cm.generated) => cm.internal_questions = <<>>
              /\ pressure'.ret = "false" =>
                    /\ cm'.ret = "None"
                    /\ cm'.internal_questions = cm.internal_questions
                    /\ cm'.output = cm.output
      ]_vars

\* an eruption with Q1 (0.6) and Q2 (0.8) in the buffer: Q2 is on the output
C23_Witness ==
    /\ cm.op = "ask_user_curiosity_question"
    /\ cm.erupted
    /\ cm.ret = "response"
    /\ cm.generated = 2
    /\ cm.output = <<2>>
    /\ cm.internal_questions = <<>>
    /\ ~cm.fallback

-----------------------------------------------------------------------------
(* The scores of the CuriosityManager *)

InUnit(x) == 0 <= x /\ x <= 100

\* C24: every curiosity score the CuriosityManager returns to a caller
\* (calculate_curiosity_score, get_curiosity_score, get_novelty_score,
\* compute_curiosity) or feeds into the pressure and the question buffer lies
\* in [0, 1], for every cosine similarity in [-1, 1].
C24_ScoresInUnit ==
    /\ cm.ret = "score" => InUnit(cm.value)
    /\ (cm.op \in {"generate_curiosity_question", "_maybe_generate_internal_question"}
        /\ cm.score # NoScore) => InUnit(cm.score)
    /\ \A i \in 1..Len(cm.internal_questions) : InUnit(cm.internal_questions[i].s)

\* C26: a collaborator that fails during a curiosity computation (no state
\* manager, an embedder, long-term memory or similarity that raises) makes
\* compute_curiosity, get_curiosity_score and the scoring step of
\* generate_curiosity_question yield the neutral score 0.5; they do not raise.
C26_FailureGivesNeutral ==
    (cm.failure /\ cm.op \in {"compute_curiosity", "get_curiosity_score",
                              "generate_curiosity_question"}) =>
        /\ cm.ret # "raised"
        /\ (cm.ret = "score" /\ cm.score = NoScore) => cm.value = 50

\* C27: the curiosity score of a prompt is
\* weight_ignorance * ignorance + weight_novelty * novelty, with the weights
\* of the configuration.
C27_WeightedScore ==
    cm.score # NoScore =>
        100 * cm.score = cm.weight_ignorance * cm.ignorance + cm.weight_novelty * cm.novelty

-----------------------------------------------------------------------------
(* TemperamentSystem.  Scores, confidences, stages and factors are in      *)
(* hundredths, times in seconds.                                           *)

MaxTemperUpdates == 4

\* (temp_smoothing_factor, decay_rate, curiosity_boost,
\*  confidence_feedback_strength, early_lifecycle, mid_lifecycle,
\*  history_maxlen, confidence_history_maxlen): the defaults with the
\*  shortest histories, and the upper ends of the ranges
TemperamentSettings ==
    { <<10, 10, 20, 30, 25, 75, 3, 3>>, <<100, 100, 50, 100, 30, 80, 3, 3>> }

NoPressure == 0 - 1

\* (confidence, lifecycle_stage, time_since_last, curiosity_pressure,
\*  the two values of torch.randn, in whole units)
Accepted ==
    { <<100, 0, 0, NoPressure, 0, 0>>,
      <<0, 50, 1, 100, 0 - 3, 0 - 3>>,
      <<100, 100, 30, 100, 3, 3>>,
      <<0, 100, 30, NoPressure, 0 - 3, 0 - 3>>,
      <<50, 50, 1, 0, 0, 0>>,
      <<100, 50, 2, 100, 3, 0>> }

\* a confidence, a lifecycle_stage or a curiosity_pressure outside [0, 1]
Refused ==
    { <<150, 50, 1, NoPressure, 0, 0>>,
      <<50, 0 - 20, 1, 100, 3, 0>>,
      <<50, 50, 1, 150, 0, 0>> }

Stimuli == Accepted \cup Refused

Sum(seq) == LET sum[i \in 0..Len(seq)] == IF i = 0 THEN 0 ELSE sum[i - 1] + seq[i]
            IN sum[Len(seq)]

\* torch.var of the history: the sum of the squared distances to the mean
\* over n - 1
variance(history) ==
    Sum([i \in 1..Len(history) |->
            (history[i] - Sum(history) \div Len(history))
          * (history[i] - Sum(history) \div Len(history))])
        \div ((Len(history) - 1) * 100)

\* a score that is left as it is
unclamped(x) == x

\* max(-1.0, min(1.0, x))
clamp_score(x) == Max(0 - 100, Min(100, x))

_calculate_avg_confidence(s) == s.sleep_confidence_sum \div s.sleep_confidence_count

_calculate_lifecycle_bias(s, lifecycle_stage) ==
    IF lifecycle_stage < s.early_lifecycle
    THEN (s.curiosity_boost * (s.early_lifecycle - lifecycle_stage)) \div s.early_lifecycle
    ELSE IF lifecycle_stage < s.mid_lifecycle
    THEN IF Len(s.history) >= s.history_maxlen
         THEN (0 - 20 * variance(s.history)) \div 100
         ELSE 0
    ELSE (0 - s.curiosity_boost * (lifecycle_stage - s.mid_lifecycle)) \div (100 - s.mid_lifecycle)

mood_label(s) ==
    IF s.score < 0 - 50 THEN "melancholic"
    ELSE IF s.score < 0 THEN "restless"
    ELSE IF s.score < s.sluggish_threshold THEN "calm"
    ELSE "curious"

\* torch.randn times melancholy_noise, twice when the label is "melancholic"
_calculate_noise(s, noise, more_noise) ==
    IF mood_label(s) = "melancholic"
    THEN noise * s.melancholy_noise + more_noise * s.melancholy_noise
    ELSE noise * s.melancholy_noise

_compute_target_score(s, lifecycle_stage, curiosity_pressure, noise, more_noise) ==
    clamp_score(2 * (_calculate_avg_confidence(s) - 50)
                + _calculate_lifecycle_bias(s, lifecycle_stage)
                + (s.confidence_feedback_strength * (_calculate_avg_confidence(s) - 50)) \div 100
                + (IF curiosity_pressure = NoPressure THEN 0
                   ELSE (s.curiosity_boost * curiosity_pressure) \div 100)
                + _calculate_noise(s, noise, more_noise))

\* temp_smoothing_factor * (1.0 - decay_rate * time_since_last)
smoothing(s, time_since_last) ==
    (s.temp_smoothing_factor * (100 - s.decay_rate * time_since_last)) \div 100

\* (1.0 - smoothing) * target_score + smoothing * self._score
smoothed(s, target_score, time_since_last) ==
    ((100 - smoothing(s, time_since_last)) * target_score
     + smoothing(s, time_since_last) * s.score) \div 100

_update_confidence(s, confidence) ==
    [s EXCEPT !.confidence_history = deque_append(@, confidence, s.confidence_history_maxlen),
              !.sleep_confidence_sum = @ + confidence,
              !.sleep_confidence_count = @ + 1]

_apply_smoothing(s, target_score, time_since_last) ==
    [s EXCEPT !.score = clamp_score(smoothed(s, target_score, time_since_last)),
              !.raw = smoothed(s, target_score, time_since_last),
              !.target = target_score]

_update_state(s) ==
    [s EXCEPT !.history = deque_append(@, s.score, s.history_maxlen),
              !._mood_cache = "None"]

\* the record reads mood_label, which fills the cache again
_log_update(s) == [s EXCEPT !._mood_cache = mood_label(s)]

\* the three range checks of update_temperament
out_of_range(confidence, lifecycle_stage, curiosity_pressure) ==
    \/ ~InUnit(confidence)
    \/ ~InUnit(lifecycle_stage)
    \/ (curiosity_pressure # NoPressure /\ ~InUnit(curiosity_pressure))

\* an update that records the confidence before it checks the ranges
update_unchecked(s, confidence, lifecycle_stage, time_since_last, curiosity_pressure, noise, more_noise) ==
    IF out_of_range(confidence, lifecycle_stage, curiosity_pressure)
    THEN [_update_confidence(s, confidence) EXCEPT !.ret = "raised"]
    ELSE [_log_update(
              _update_state(
                  _apply_smoothing(
                      _update_confidence(s, confidence),
                      _compute_target_score(_update_confidence(s, confidence), lifecycle_stage,
                                            curiosity_pressure, noise, more_noise),
                      time_since_last)))
          EXCEPT !.ret = "None"]
update_temperament(s, confidence, lifecycle_stage, time_since_last, curiosity_pressure, noise, more_noise) ==
    IF out_of_range(confidence, lifecycle_stage, curiosity_pressure)
    THEN [s EXCEPT !.ret = "raised"]
    ELSE [_log_update(
              _update_state(
                  _apply_smoothing(
                      _update_confidence(s, confidence),
                      _compute_target_score(_update_confidence(s, confidence), lifecycle_stage,
                                            curiosity_pressure, noise, more_noise),
                      time_since_last)))
          EXCEPT !.ret = "None"]

InitTemperament ==
    /\ ManagerInit /\ FileInit /\ CacheInit /\ PressureInit /\ QuestionInit
    /\ \E c \in TemperamentSettings :
         temper = [NoTemperament EXCEPT
                      !.eager_threshold = 70, !.sluggish_threshold = 30,
                      !.mood_influence = 50, !.restless_drop = 10,
                      !.melancholy_noise = 10,
                      !.temp_smoothing_factor = c[1], !.decay_rate = c[2],
                      !.curiosity_boost = c[3], !.confidence_feedback_strength = c[4],
                      !.early_lifecycle = c[5], !.mid_lifecycle = c[6],
                      !.history_maxlen = c[7], !.confidence_history_maxlen = c[8]]

UpdateTemperament(x) ==
    /\ temper.nCalls < MaxTemperUpdates
    /\ temper' = [update_temperament(temper, x[1], x[2], x[3], x[4], x[5], x[6])
                     EXCEPT !.nCalls = @ + 1]
    /\ UNCHANGED <<managerVars, disk, fileVars, cacheVars, pressureVars, questionVars>>

NextTemperament == \E x \in Stimuli : UpdateTemperament(x)

SpecTemperament == InitTemperament /\ [][NextTemperament]_vars

\* C25: after every update of the TemperamentSystem with confidence,
\* lifecycle_stage and curiosity_pressure in [0, 1], whatever the time since
\* the last update, the noise and the settings, the score lies in [-1, 1].
C25_ScoreInRange == 0 - 100 <= temper.score /\ temper.score <= 100

\* an update whose smoothing overshoots: the weighted sum is beyond 1 and the
\* score is 1
C25_Witness ==
    /\ temper.ret = "None"
    /\ temper.nCalls >= 2
    /\ temper.raw > 100
    /\ temper.score = 100
    /\ Len(temper.history) = temper.history_maxlen

-----------------------------------------------------------------------------
(* Single writes and snapshots of the ConfigManager *)

\* the schema check in the order of the specification: unknown key, null
\* (required, nullable), type, predicate, inclusive range
Accepts(sch, key, value) ==
    /\ key \in DOMAIN sch
    /\ IF value = Null
       THEN ~sch[key].required /\ sch[key].nullable
       ELSE /\ isinstance(value, sch[key].type)
            /\ ValidatorHolds(sch[key].validator, value)
            /\ sch[key].range # NoRange =>
                  (sch[key].range[1] <= value.v /\ value.v <= sch[key].range[2])

\* C28: on a manager that is not frozen update(key, value) returns true
\* exactly when the schema accepts (key, value); when it returns true
\* get(key) returns value afterwards, and when it returns false flat_config,
\* structured_config, the cache and the hash are what they were.
C28_UpdateIffValid ==
    [][ (Called("update") /\ ~frozen) =>
          /\ lastOp'.ret = IF Accepts(schemas, lastOp'.updates[1][1], lastOp'.updates[1][2])
                           THEN "true" ELSE "false"
          /\ lastOp'.ret = "true" =>
                get(Mgr', lastOp'.updates[1][1], Null) = lastOp'.updates[1][2]
          /\ lastOp'.ret = "false" => StoreUnchanged
      ]_vars

\* the value a nested dict holds at a key, Bottom when it holds none
RECURSIVE ValueAt(_, _)
ValueAt(value, keys) ==
    IF keys = <<>> THEN value
    ELSE IF value.t # "dict" THEN Bottom
    ELSE IF Head(keys) \in DOMAIN value.v THEN ValueAt(value.v[Head(keys)], Tail(keys))
    ELSE Bottom

\* what load_state(snap) is to restore for key: the value the snapshot
\* recorded, the schema default when it recorded none that the schema accepts
Restored(key) ==
    IF ValueAt(snap.recorded, key) # Bottom /\ Accepts(schemas, key, ValueAt(snap.recorded, key))
    THEN ValueAt(snap.recorded, key)
    ELSE schemas[key].default

OrBottom(value) == IF value = Null THEN Bottom ELSE value

\* C29: after s = get_state(), a successful update and load_state(s), get(k)
\* returns for every key k of the schema the value s recorded (the schema
\* default when s recorded none that is valid), and flat_config,
\* structured_config and the cache hold that value.
C29_LoadStateRestores ==
    [][ (Called("load_state") /\ lastOp.op = "update" /\ lastOp.ret = "true") =>
          /\ lastOp'.ret # "raised"
          /\ \A i \in DOMAIN DEFAULT_SCHEMA :
                /\ get(Mgr', DEFAULT_SCHEMA[i], Bottom) = OrBottom(Restored(DEFAULT_SCHEMA[i]))
                /\ FlatValue(DEFAULT_SCHEMA[i])' = Restored(DEFAULT_SCHEMA[i])
                /\ StructuredValue(DEFAULT_SCHEMA[i])' = Restored(DEFAULT_SCHEMA[i])
                /\ cache'[DEFAULT_SCHEMA[i]] = Restored(DEFAULT_SCHEMA[i])
      ]_vars

-----------------------------------------------------------------------------
(* update_batch step by step, with a second thread that writes *)

\* the (key, value) pairs the second thread passes to update: keys that
\* none of the batches writes
WriterInputs ==
    { <<K_scaffold_weight_cap, FloatV(5000)>>, <<K_max_samples, IntV(5)>> }

\* the second thread calls update(key, value) while update_batch runs;
\* update holds self.lock from its first statement to its return
ConcurrentUpdate(key, value) ==
    /\ Running
    /\ lock = "free"
    /\ Len(seen) < MaxSeen
    /\ \E r \in {update(Mgr, key, value)} :
         /\ SetMgrBatch(r.m, batch)
         /\ seen' = Append(seen, [kind |-> "update", key |-> key, val |-> value, ret |-> r.ret])
    /\ UNCHANGED <<lock, constructed, lastOp, nOps, nSnaps, pc, otherVars>>

NextWriters ==
    \/ \E u \in ConcInputs, rb \in BOOLEAN : BatchBegin(u, rb)
    \/ BatchValidate
    \/ BatchApply
    \/ \E ok \in BOOLEAN : BatchSave(ok)
    \/ BatchNotify
    \/ BatchExcept
    \/ BatchReturn
    \/ \E u \in WriterInputs : ConcurrentUpdate(u[1], u[2])

SpecWriters == Init /\ [][NextWriters]_vars

\* C30: an update(k, v) of one thread that returned true is not undone by
\* the update_batch of another thread that runs at the same time, fails and
\* rolls back: when the batch has returned false, flat_config,
\* structured_config and get(k) still give v.
C30_UpdateSurvivesRollback ==
    (pc = "done" /\ lastOp.op = "update_batch" /\ lastOp.ret = "false" /\ lastOp.rollback) =>
        \A i \in DOMAIN seen :
            (seen[i].kind = "update" /\ seen[i].ret = "true") =>
                /\ get(Mgr, seen[i].key, Bottom) = seen[i].val
                /\ FlatValue(seen[i].key) = seen[i].val
                /\ StructuredValue(seen[i].key) = seen[i].val


-----------------------------------------------------------------------------
(* The curiosity weights in the Config Manager: update and update_batch on
   curiosity_config.weight_ignorance and curiosity_config.weight_novelty     *)

\* the (key, value) pairs callers pass to update for the two weights
WeightInputs ==
    { <<K_weight_ignorance, FloatV(5000)>>, <<K_weight_ignorance, FloatV(7000)>>,
      <<K_weight_ignorance, FloatV(12000)>>,
      <<K_weight_novelty, FloatV(5000)>>, <<K_weight_novelty, FloatV(3000)>> }

\* the dicts callers pass to update_batch for the two weights
WeightBatches ==
    { << <<K_weight_ignorance, FloatV(5000)>>, <<K_weight_novelty, FloatV(5000)>> >>,
      << <<K_weight_ignorance, FloatV(2000)>> >>,
      << <<K_weight_ignorance, FloatV(6000)>>, <<K_weight_novelty, FloatV(12000)>> >> }

NextWeights ==
    \/ \E x \in WeightInputs : Update(x[1], x[2])
    \/ \E u \in WeightBatches, f \in BatchFlags : UpdateBatch(u, f[1], f[2])

SpecWeights == Init /\ [][NextWeights]_vars

\* the stored weight of key, in ten-thousandths
Weight(key) == get(Mgr, key, Bottom).v

\* C31: after any sequence of update and update_batch calls the stored
\* curiosity_config.weight_ignorance and curiosity_config.weight_novelty sum
\* to 1.0
C31_WeightsSumToOne ==
    constructed => Weight(K_weight_ignorance) + Weight(K_weight_novelty) = 10000


-----------------------------------------------------------------------------
(* The embedding cache with embedding_cache_backup_enabled: the backup file *)

MaxSpillPuts == 4    \* calls of put per behaviour with the backup enabled

SpillSettings == { <<2, 1, TRUE>> }

InitSpill == CuriosityInit(SpillSettings, MaxSpillPuts)

\* put(key, entry) for a key the cache holds: the entry is replaced by a new
\* one, its last_access the time of the call; _prune_cache follows
RePut(key) ==
    /\ caller.pc = "idle"
    /\ caller.nPuts < caller.puts
    /\ \E i \in DOMAIN embedding_cache :
         /\ embedding_cache[i].key = key
         /\ embedding_cache' = [embedding_cache EXCEPT
                                  ![i] = [key |-> key, last_access |-> caller.clock + 1]]
    /\ caller' = [caller EXCEPT !.pc = "prune_cache", !.clock = @ + 1, !.nPuts = @ + 1]
    /\ UNCHANGED <<curiosity, prune_event, prune_shutdown, evictor, sd, backup_file>>
    /\ UNCHANGED <<managerVars, disk, fileVars, pressureVars, questionVars, temperamentVars>>

\* the steps of the evictor, of a caller that puts new entries and puts
\* entries again, and of shutdown; no entry is changed in place
NextSpill ==
    \/ EvictorWhile \/ EvictorWait \/ EvictorSelect
    \/ \E written \in Written : EvictorBackup(written)
    \/ EvictorDelete \/ EvictorCheck \/ EvictorClear
    \/ Put
    \/ \E key \in 1..MaxSpillPuts : RePut(key)
    \/ \E monitor_high \in BOOLEAN : PruneCache(monitor_high)
    \/ MainSelect \/ (\E written \in Written : MainBackup(written)) \/ MainDelete
    \/ ShutdownFlag \/ ShutdownSet \/ ShutdownJoin

SpecSpill == InitSpill /\ [][NextSpill]_vars

\* the line of the backup file for an entry of the cache
Line(e) == [key |-> e.key, value |-> [last_access |-> e.last_access]]

\* the step is step 3 of a round of the background thread
EvictorDeletes == evictor.pc = "delete" /\ evictor'.pc = "check"

\* C32: with the backup enabled, every entry the background thread deletes
\* from the cache is in the backup file, with the key and the value it has
\* when it is deleted, before it is deleted
C32_DeletedWasSpilled ==
    [][ (curiosity.embedding_cache_backup_enabled /\ EvictorDeletes) =>
          \A i \in DOMAIN embedding_cache :
            embedding_cache[i].key \notin Keys(embedding_cache') =>
              \E j \in DOMAIN backup_file : backup_file[j] = Line(embedding_cache[i]) ]_vars


-----------------------------------------------------------------------------
(* The pressure as the CuriosityManager uses it *)

\* C33: every operation that changes the pressure - the add of
\* _maybe_generate_internal_question as well as check_eruption - applies the
\* decay for now - last_update first and leaves last_update at now
C33_DecayBeforeEveryUse ==
    [][ pressure'.current_pressure # pressure.current_pressure =>
          pressure'.last_update = now ]_vars


-----------------------------------------------------------------------------
(* The texts of the questions.  A text is the sequence of its characters.   *)

\* what generation_manager.generate_text returns, stripped, the n-th time it
\* returns a text
generate_text(n) ==
    CASE n = 1 -> <<"U", "n", "s", "u", "r", "e">>
      [] n = 2 -> <<"H", "i", "?">>
      [] OTHER -> <<"W", "h", "y", " ", "s", "o", "?">>

\* str.lower on the characters the texts are made of
lower(text) ==
    [i \in DOMAIN text |->
        CASE text[i] = "U" -> "u" [] text[i] = "H" -> "h" [] text[i] = "W" -> "w"
          [] OTHER -> text[i]]

\* ["what is this?", "i don't know.", "unsure"]
generic_questions ==
    { <<"w", "h", "a", "t", " ", "i", "s", " ", "t", "h", "i", "s", "?">>,
      <<"i", " ", "d", "o", "n", "'", "t", " ", "k", "n", "o", "w", ".">>,
      <<"u", "n", "s", "u", "r", "e">> }

\* _is_good_question(question, prompt): both of its last branches return True
_is_good_question(question, prompt) ==
    IF question = <<>> \/ Len(question) < 5 THEN FALSE
    ELSE IF lower(question) \in generic_questions THEN FALSE
    ELSE TRUE

\* the step is a call of _maybe_generate_internal_question
AddingStep ==
    cm'.op = "_maybe_generate_internal_question" /\ cm'.nAdds = cm.nAdds + 1

\* the entries of the buffer after the step that the step appended
Appended == { i \in DOMAIN cm'.internal_questions : cm'.internal_questions[i].q > cm.generated }

\* C35: _maybe_generate_internal_question appends at most one entry, and only
\* for a score that reaches the internal threshold and a question that
\* passes _is_good_question: the buffer never holds a question that is empty,
\* shorter than 5 characters or one of the generic questions
C35_BufferHoldsGoodQuestions ==
    /\ [][ AddingStep =>
             /\ Cardinality(Appended) <= 1
             /\ Appended # {} => reaches_internal(cm, cm'.score) ]_vars
    /\ [](\A i \in DOMAIN cm.internal_questions :
             _is_good_question(generate_text(cm.internal_questions[i].q), <<>>))


-----------------------------------------------------------------------------
(* Eruptions and the output *)

\* the step is a call of ask_user_curiosity_question in which check_eruption
\* returned true
Erupting == Asking /\ pressure'.ret = "true"

\* the step put one question on the output
Emitted == Len(cm'.output) = Len(cm.output) + 1

\* C36: in every call of ask_user_curiosity_question in which check_eruption
\* returned true a question is put on the output
C36_EruptionEmits ==
    [][ Erupting => Emitted ]_vars

\* C36, amended: such a call has dropped the pressure and restarted the
\* cooldown; it puts a question on the output when the buffer holds one, or
\* when, the buffer being empty, it generates a fallback question; with an
\* empty buffer and no fallback question it puts nothing on the output and
\* returns None or raises, the eruption being spent all the same.
C36_EruptionEmitsOrSkips ==
    [][ Erupting =>
          /\ pressure'.last_eruption_time = now
          /\ cm.internal_questions # <<>> => Emitted /\ cm'.ret = "response"
          /\ (cm.internal_questions = <<>> /\ cm'.generated = cm.generated + 1) =>
                /\ Emitted /\ cm'.fallback
                /\ cm'.output = Append(cm.output, cm'.generated)
          /\ (cm.internal_questions = <<>> /\ cm'.generated = cm.generated) =>
                /\ cm'.output = cm.output
                /\ cm'.ret \in {"None", "raised"}
      ]_vars

\* an eruption with an empty buffer and no last prompt: the pressure has
\* dropped, nothing is on the output and the call returned None
C36_Witness ==
    /\ cm.op = "ask_user_curiosity_question"
    /\ cm.erupted /\ ~cm.fallback
    /\ cm.ret = "None"
    /\ cm.output = <<>>
    /\ cm.internal_questions = <<>>
    /\ pressure.ret = "true"
    /\ pressure.last_eruption_time = now
    /\ pressure.current_pressure = 45


-----------------------------------------------------------------------------
(* Concurrent calls of the CuriosityManager.  Each thread makes one call;   *)
(* a step is one read-modify-write of an attribute.  CuriosityPressure has  *)
(* no lock; CuriosityManager._lock is held by ask_user_curiosity_question   *)
(* from its choice of a question to the clearing of the buffer, and by no   *)
(* step of generate_curiosity_question or                                   *)
(* _maybe_generate_internal_question.                                       *)

MaxThreads == 2      \* threads that call the CuriosityManager

Threads == 1..MaxThreads

\* a thread before its call; released: the question its call returned or
\* put on the output; appended: the question its call appended
Waiting ==
    [pc |-> "idle", op |-> "none", now |-> 0, score |-> NoScore, kept |-> <<>>,
     picked |-> 0, ret |-> "none", erupted |-> FALSE, released |-> 0, appended |-> 0]

InitThreads == InitManager([t \in Threads |-> Waiting])

\* the prompt of the concurrent calls: curiosity score 0.8
ThreadWorld == CHOOSE w \in Healthy : Score(w) = 80

\* what the steps of the threads leave alone
threadFrame == UNCHANGED <<now, managerVars, disk, fileVars, cacheVars, temperamentVars>>

\* self._lock is free for thread t
LockFree(t) == \A u \in Threads : u # t => threads[u].pc # "ask_clear"

\* ask_user_curiosity_question is called; check_eruption: now = time.time()
AskNow(t) ==
    /\ threads[t].pc = "idle"
    /\ threads' = [threads EXCEPT ![t].pc = "ask_decay", ![t].op = "ask_user_curiosity_question",
                                  ![t].now = now]
    /\ UNCHANGED <<pressure, cm>>
    /\ threadFrame

\* check_eruption: self.decay_pressure(now)
AskDecay(t) ==
    /\ threads[t].pc = "ask_decay"
    /\ pressure' = decay_pressure(pressure, threads[t].now)
    /\ threads' = [threads EXCEPT ![t].pc = "ask_test"]
    /\ UNCHANGED cm
    /\ threadFrame

\* check_eruption: the test of the pressure and of the cooldown
AskTest(t) ==
    /\ threads[t].pc = "ask_test"
    /\ threads' = IF pressure.current_pressure >= cm.pressure_threshold
                     /\ cooldown_elapsed(threads[t].now, pressure.last_eruption_time,
                                         pressure.cooldown)
                  THEN [threads EXCEPT ![t].pc = "ask_drop"]
                  ELSE [threads EXCEPT ![t].pc = "done", ![t].ret = "None"]
    /\ UNCHANGED <<pressure, cm>>
    /\ threadFrame

\* check_eruption: self.current_pressure = max(min_pressure, current - drop)
AskDrop(t) ==
    /\ threads[t].pc = "ask_drop"
    /\ pressure' = [pressure EXCEPT
                      !.current_pressure = Max(pressure.min_pressure, @ - cm.pressure_drop)]
    /\ threads' = [threads EXCEPT ![t].pc = "ask_stamp"]
    /\ UNCHANGED cm
    /\ threadFrame

\* check_eruption: self._last_eruption_time = now; return True
AskStamp(t) ==
    /\ threads[t].pc = "ask_stamp"
    /\ pressure' = [pressure EXCEPT !.last_eruption_time = threads[t].now,
                                    !.erupted = Append(@, threads[t].now)]
    /\ threads' = [threads EXCEPT ![t].pc = "ask_pick", ![t].erupted = TRUE]
    /\ UNCHANGED cm
    /\ threadFrame

\* with self._lock: the best buffered question is chosen, or a fallback
\* question is generated, or the call returns None
AskPick(t, last_prompt) ==
    /\ threads[t].pc = "ask_pick"
    /\ LockFree(t)
    /\ IF cm.internal_questions # <<>>
       THEN /\ threads' = [threads EXCEPT ![t].pc = "ask_clear",
                                          ![t].picked = max_by_score(cm.internal_questions).q]
            /\ UNCHANGED cm
       ELSE IF ~last_prompt
       THEN /\ threads' = [threads EXCEPT ![t].pc = "done", ![t].ret = "None"]
            /\ UNCHANGED cm
       ELSE /\ threads' = [threads EXCEPT ![t].pc = "done", ![t].ret = "response",
                                          ![t].released = cm.generated + 1]
            /\ cm' = [cm EXCEPT !.generated = @ + 1,
                                !.output = output_curiosity_utterance(@, cm.generated + 1)]
    /\ UNCHANGED pressure
    /\ threadFrame

\* self._internal_questions.clear(), the lock is released and the question
\* is put on the output
AskClear(t) ==
    /\ threads[t].pc = "ask_clear"
    /\ cm' = [cm EXCEPT !.internal_questions = cleared(@),
                        !.output = output_curiosity_utterance(@, threads[t].picked)]
    /\ threads' = [threads EXCEPT ![t].pc = "done", ![t].ret = "response",
                                  ![t].released = threads[t].picked]
    /\ UNCHANGED pressure
    /\ threadFrame

\* op is called: the score of the prompt, the pressure grows, now = time.time()
ScoreAndAdd(t, op) ==
    /\ threads[t].pc = "idle"
    /\ pressure' = add_pressure(pressure, calculate_curiosity_score(ThreadWorld).value \div 10)
    /\ threads' = [threads EXCEPT ![t].pc = "prune_read", ![t].op = op, ![t].now = now,
                                  ![t].score = calculate_curiosity_score(ThreadWorld).value]
    /\ UNCHANGED cm
    /\ threadFrame

\* [(q, s, t) for q, s, t in self._internal_questions if t >= cutoff]
PruneRead(t) ==
    /\ threads[t].pc = "prune_read"
    /\ threads' = [threads EXCEPT
                     ![t].pc = "prune_write",
                     ![t].kept = prune_by_age(cm.internal_questions,
                                              threads[t].now - cm.internal_decay_seconds)]
    /\ UNCHANGED <<pressure, cm>>
    /\ threadFrame

\* self._internal_questions = deque(..., maxlen=self.max_internal_questions)
PruneWrite(t) ==
    /\ threads[t].pc = "prune_write"
    /\ cm' = [cm EXCEPT !.internal_questions = threads[t].kept]
    /\ threads' = [threads EXCEPT ![t].pc = "append"]
    /\ UNCHANGED pressure
    /\ threadFrame

\* if score >= self.internal_threshold ...: q = self._build_question(...);
\* if q: self._internal_questions.append((q, score, now)); gen: a text came
AppendQuestion(t, gen) ==
    /\ threads[t].pc = "append"
    /\ IF reaches_internal(cm, threads[t].score) /\ gen
       THEN /\ cm' = [cm EXCEPT
                        !.internal_questions =
                            deque_append(@, [q |-> cm.generated + 1, s |-> threads[t].score,
                                             t |-> threads[t].now],
                                         cm.max_internal_questions),
                        !.generated = @ + 1]
            /\ threads' = [threads EXCEPT
                             ![t].appended = cm.generated + 1,
                             ![t].pc = IF threads[t].op = "generate_curiosity_question"
                                       THEN "release_pick" ELSE "done",
                             ![t].ret = IF threads[t].op = "generate_curiosity_question"
                                        THEN "none" ELSE "None"]
       ELSE /\ UNCHANGED cm
            /\ threads' = [threads EXCEPT
                             ![t].pc = IF threads[t].op = "generate_curiosity_question"
                                       THEN "release_pick" ELSE "done",
                             ![t].ret = IF threads[t].op = "generate_curiosity_question"
                                        THEN "none" ELSE "None"]
    /\ UNCHANGED pressure
    /\ threadFrame

\* generate_curiosity_question, steps 2 and 3 up to the call of max
ReleasePick(t) ==
    /\ threads[t].pc = "release_pick"
    /\ threads' = IF threads[t].score < cm.curiosity_threshold \/ cm.internal_questions = <<>>
                  THEN [threads EXCEPT ![t].pc = "done", ![t].ret = "None"]
                  ELSE [threads EXCEPT ![t].pc = "release_clear",
                                       ![t].picked = max_by_score(cm.internal_questions).q]
    /\ UNCHANGED <<pressure, cm>>
    /\ threadFrame

\* generate_curiosity_question: self._internal_questions.clear(); return q
ReleaseClear(t) ==
    /\ threads[t].pc = "release_clear"
    /\ cm' = [cm EXCEPT !.internal_questions = cleared(@)]
    /\ threads' = [threads EXCEPT ![t].pc = "done", ![t].ret = "question",
                                  ![t].released = threads[t].picked]
    /\ UNCHANGED pressure
    /\ threadFrame

NextThreads ==
    \/ \E t \in Threads : AskNow(t)
    \/ \E t \in Threads : AskDecay(t)
    \/ \E t \in Threads : AskTest(t)
    \/ \E t \in Threads : AskDrop(t)
    \/ \E t \in Threads : AskStamp(t)
    \/ \E t \in Threads, last_prompt \in BOOLEAN : AskPick(t, last_prompt)
    \/ \E t \in Threads : AskClear(t)
    \/ \E t \in Threads :
         \E op \in {"generate_curiosity_question", "_maybe_generate_internal_question"} :
           ScoreAndAdd(t, op)
    \/ \E t \in Threads : PruneRead(t)
    \/ \E t \in Threads : PruneWrite(t)
    \/ \E t \in Threads, gen \in BOOLEAN : AppendQuestion(t, gen)
    \/ \E t \in Threads : ReleasePick(t)
    \/ \E t \in Threads : ReleaseClear(t)

SpecThreads == InitThreads /\ [][NextThreads]_vars

\* C34: of two threads that call ask_user_curiosity_question on the same
\* CuriosityPressure at most one sees check_eruption return True within a
\* cooldown, and the pressure is dropped at most once
C34_OneEruptionAmongThreads ==
    \A t, u \in Threads :
        (t # u /\ threads[t].erupted /\ threads[u].erupted) =>
            \/ threads[t].now - threads[u].now > pressure.cooldown
            \/ threads[u].now - threads[t].now > pressure.cooldown


\* the questions that calls have returned or put on the output are all
\* different
ReleasedOnce ==
    \A t, u \in Threads :
        (t # u /\ threads[t].released # 0) => threads[t].released # threads[u].released

\* the step is the assignment of the pruned deque by thread t
Rebuilds(t) == threads[t].pc = "prune_write" /\ threads'[t].pc = "append"

\* the rebuild keeps every entry that is not older than internal_decay_seconds
RebuildKeepsLive ==
    \A t \in Threads :
        Rebuilds(t) =>
            \A i \in DOMAIN cm.internal_questions :
                cm.internal_questions[i].t >= threads[t].now - cm.internal_decay_seconds =>
                    \E j \in DOMAIN cm'.internal_questions :
                        cm'.internal_questions[j] = cm.internal_questions[i]

\* C37: with generate_curiosity_question, _maybe_generate_internal_question
\* and ask_user_curiosity_question in concurrent threads, each buffered
\* question is returned or put on the output at most once, and no appended
\* question is lost by the age-prune rebuild of another thread
C37_BufferUnderMutex ==
    /\ []ReleasedOnce
    /\ [][RebuildKeepsLive]_vars

-----------------------------------------------------------------------------
(* Updates of the TemperamentSystem that fail the range checks *)

\* C40: update_temperament called with a confidence, a lifecycle_stage or a
\* curiosity_pressure outside [0, 1] raises and leaves the score, the score
\* history, the confidence history, the running confidence sum and count
\* and the mood cache exactly as they were before the call.
C40_RefusedUpdateChangesNothing ==
    [][ \A x \in Refused :
          UpdateTemperament(x) =>
              /\ temper'.ret = "raised"
              /\ temper'.score = temper.score
              /\ temper'.history = temper.history
              /\ temper'.confidence_history = temper.confidence_history
              /\ temper'.sleep_confidence_sum = temper.sleep_confidence_sum
              /\ temper'.sleep_confidence_count = temper.sleep_confidence_count
              /\ temper'._mood_cache = temper._mood_cache ]_vars

\* a refused update after two accepted ones: the histories, the sum, the
\* count and the cached label are those of the two accepted updates
C40_Witness ==
    /\ temper.ret = "raised"
    /\ temper.nCalls = 3
    /\ temper.sleep_confidence_count = 2
    /\ temper.sleep_confidence_sum = 100
    /\ Len(temper.confidence_history) = 2
    /\ Len(temper.history) = 2
    /\ temper._mood_cache = "restless"

-----------------------------------------------------------------------------
(* Adjustments of the temperament parameters.  The arguments of a call are *)
(* a dictionary from the names of the arguments that are not None to       *)
(* their values, in hundredths.                                            *)

MaxAdjusts == 2
MaxAdjustedUpdates == 2

param_names ==
    << "eager_threshold", "sluggish_threshold", "mood_influence",
       "curiosity_boost", "restless_drop", "melancholy_noise",
       "conf_feedback_strength", "temp_smoothing_factor", "decay_rate" >>

ranges ==
    << <<70, 90>>, <<30, 60>>, <<0, 100>>,
       <<0, 50>>, <<0, 50>>, <<0, 10>>,
       <<0, 100>>, <<0, 100>>, <<0, 100>> >>

\* the fields of the TemperamentConfig dataclass
TemperamentConfigFields ==
    { "eager_threshold", "sluggish_threshold", "mood_influence", "curiosity_boost",
      "restless_drop", "melancholy_noise", "confidence_feedback_strength",
      "temp_smoothing_factor", "decay_rate", "history_maxlen",
      "confidence_history_maxlen", "early_lifecycle", "mid_lifecycle" }

\* zip(param_names, params, ranges): the place of a name in the two lists
Position(name) == CHOOSE i \in 1..Len(param_names) : param_names[i] = name

\* a check that lets every value through
any_value(name, value) == TRUE
in_range(name, value) ==
    ranges[Position(name)][1] <= value /\ value <= ranges[Position(name)][2]

_validate_and_collect_updates(args) ==
    [name \in { n \in DOMAIN args : in_range(n, args[n]) } |-> args[name]]

\* setattr on the dataclass instance: a field is overwritten, any other name
\* becomes a new attribute of the object
setattr(s, key, value) ==
    IF key \in TemperamentConfigFields
    THEN [s EXCEPT ![key] = value]
    ELSE [s EXCEPT !.attrs = [k \in DOMAIN s.attrs \cup {key} |->
                                 IF k = key THEN value ELSE s.attrs[k]]]

RECURSIVE apply_from(_, _, _)
apply_from(s, updates, i) ==
    IF i > Len(param_names) THEN s
    ELSE IF param_names[i] \in DOMAIN updates
    THEN apply_from(setattr(s, param_names[i], updates[param_names[i]]), updates, i + 1)
    ELSE apply_from(s, updates, i + 1)

_apply_config_updates(s, updates) == apply_from(s, updates, 1)

adjust_temperament(s, args) ==
    [(IF DOMAIN _validate_and_collect_updates(args) # {}
      THEN _apply_config_updates(s, _validate_and_collect_updates(args))
      ELSE s)
     EXCEPT !.updates = _validate_and_collect_updates(args), !.ret = "None"]

\* the calls: every argument in range, arguments in and out of range in one
\* call, only arguments out of range, no argument, the ends of the ranges
Adjustments ==
    { [eager_threshold |-> 80, sluggish_threshold |-> 40, mood_influence |-> 30,
       curiosity_boost |-> 40, restless_drop |-> 20, melancholy_noise |-> 5,
       conf_feedback_strength |-> 100, temp_smoothing_factor |-> 50, decay_rate |-> 0],
      [curiosity_boost |-> 60, conf_feedback_strength |-> 60,
       temp_smoothing_factor |-> 150, decay_rate |-> 20],
      [eager_threshold |-> 60, sluggish_threshold |-> 70, melancholy_noise |-> 11],
      [conf_feedback_strength |-> 0],
      [conf_feedback_strength |-> 0 - 10, curiosity_boost |-> 50, mood_influence |-> 101,
       restless_drop |-> 0 - 1, eager_threshold |-> 90, sluggish_threshold |-> 30],
      NoAttributes }

\* the attribute of the TemperamentConfig object that carries a name, or
\* nothing when the object has no such attribute
attribute(s, name) ==
    IF name \in TemperamentConfigFields THEN <<s[name]>>
    ELSE IF name \in DOMAIN s.attrs THEN <<s.attrs[name]>>
    ELSE <<>>

AdjustTemperament(args) ==
    /\ temper.nAdjusts < MaxAdjusts
    /\ temper' = [adjust_temperament(temper, args) EXCEPT !.nAdjusts = @ + 1]
    /\ UNCHANGED <<managerVars, disk, fileVars, cacheVars, pressureVars, questionVars>>

UpdateAdjusted(x) ==
    /\ temper.nCalls < MaxAdjustedUpdates
    /\ UpdateTemperament(x)

\* updates that tell the parameters apart (a confidence away from 0.5, a
\* pressure, noise, an early and a middle stage) and a refused update
AdjustedStimuli ==
    { <<100, 0, 0, NoPressure, 0, 0>>,
      <<0, 50, 1, 100, 0 - 3, 0 - 3>>,
      <<50, 50, 1, 150, 0, 0>> }

NextAdjust ==
    \/ \E args \in Adjustments : AdjustTemperament(args)
    \/ \E x \in AdjustedStimuli : UpdateAdjusted(x)

SpecAdjust == InitTemperament /\ [][NextAdjust]_vars

AsAdjusted(s) ==
    [s EXCEPT !.curiosity_boost =
                  IF "curiosity_boost" \in DOMAIN s.updates
                  THEN s.updates["curiosity_boost"] ELSE @,
              !.melancholy_noise =
                  IF "melancholy_noise" \in DOMAIN s.updates
                  THEN s.updates["melancholy_noise"] ELSE @,
              !.confidence_feedback_strength =
                  IF "conf_feedback_strength" \in DOMAIN s.updates
                  THEN s.updates["conf_feedback_strength"] ELSE @]

\* C39: every in-range parameter accepted by adjust_temperament, in
\* particular conf_feedback_strength, is the value the next
\* update_temperament uses when it computes the target score: the target of
\* an accepted update is the one computed from the parameters as the last
\* adjustment accepted them.
C39_AcceptedAdjustmentUsed ==
    [][ \A x \in AdjustedStimuli :
          (UpdateAdjusted(x) /\ temper'.ret = "None") =>
              temper'.target =
                  _compute_target_score(_update_confidence(AsAdjusted(temper), x[1]),
                                        x[2], x[4], x[5], x[6]) ]_vars

====
